---- MODULE Spec2Model ----
(***************************************************************************)
(* Model of core/src/runtime/record.rs: the ExecutionRecord, its           *)
(* byte-lookup recorder, append (merge) and shard (split).                 *)
(*                                                                         *)
(* A record is a TLA+ record with one field per field of the Rust struct.  *)
(* Vec<_> streams are sequences; the byte-lookup BTreeMap                  *)
(* shard -> (event -> count) is a function whose domain is the set of keys *)
(* present in the map (the empty map is << >>).                            *)
(***************************************************************************)
EXTENDS Integers, Sequences, FiniteSets, TLC

(***************************************************************************)
(* Bounds of the model.                                                    *)
(***************************************************************************)
\* Number of events and byte lookups emitted into the record that is sharded.
MaxEvents == 4
\* Number of events and byte lookups emitted into the records that are merged.
MaxMergeEvents == 3
\* Largest length a ShardingConfig field takes (0 is included: chunks_mut(0) panics).
MaxChunk == 2
\* Number of append calls in a run.
MaxAppends == 2

\* Shard ids carried by events.
ShardIds == {1, 2, 3}

(***************************************************************************)
(* Event payloads.                                                         *)
(***************************************************************************)
\* CpuEvent: the fields shard() reads (shard, pc, next_pc, exit_code).  The
\* (pc, next_pc, exit_code) triples are the two instructions of the program
\* 0 -> 4 -> halt; emitting them in any order gives streams in which the pc of
\* an event follows from the event before it, and streams in which it does not.
CpuSteps ==
  { [pc |-> 0, next_pc |-> 4, exit_code |-> 0],
    [pc |-> 4, next_pc |-> 0, exit_code |-> 1] }

CpuEvents ==
  { [shard |-> s, pc |-> k.pc, next_pc |-> k.next_pc, exit_code |-> k.exit_code] :
      s \in ShardIds, k \in CpuSteps }

\* Any other event (AluEvent, precompile event, memory event): its shard id.
Events == { [shard |-> s] : s \in {1, 2} }

\* MemoryInitializeFinalizeEvent: the address it is the boundary value of.
MemoryEvents == { [addr |-> a] : a \in {0, 4} }

\* ByteLookupEvent: its shard and its opcode stand for the whole ordered key.
ByteOpcodes == {"AND", "U8Range"}
ByteLookupEvents == { [shard |-> s, opcode |-> o] : s \in ShardIds, o \in ByteOpcodes }

(***************************************************************************)
(* struct ExecutionRecord                                                  *)
(***************************************************************************)
\* The Vec<_> fields of the struct, in declaration order.
VecFields ==
  { "cpu_events", "add_events", "mul_events", "sub_events", "bitwise_events",
    "shift_left_events", "shift_right_events", "divrem_events", "lt_events",
    "sha_extend_events", "sha_compress_events", "keccak_permute_events",
    "ed_add_events", "ed_decompress_events", "secp256k1_add_events",
    "secp256k1_double_events", "bn254_add_events", "bn254_double_events",
    "bls12381_g1_add_events", "bls12381_g1_double_events",
    "secp256k1_decompress_events", "blake3_compress_inner_events",
    "bls12381_fp_add_events", "bls12381_fp_sub_events", "bls12381_fp_mul_events",
    "bls12381_fp2_add_events", "bls12381_fp2_sub_events", "bls12381_fp2_mul_events",
    "bls12381_g1_decompress_events", "bls12381_g2_add_events",
    "bls12381_g2_double_events", "memory_initialize_events",
    "memory_finalize_events" }

\* PublicValues::default()
DefaultPublicValues ==
  [ committed_value_digest |-> 0, deferred_proofs_digest |-> 0,
    shard |-> 0, start_pc |-> 0, next_pc |-> 0, exit_code |-> 0 ]

\* ExecutionRecord::default()
DefaultRecord ==
  [ f \in VecFields |-> << >> ] @@
  [ index |-> 0, program |-> "none", byte_lookups |-> << >>,
    public_values |-> DefaultPublicValues ]

\* ExecutionRecord::new(index, program)
NewRecord(index, program) ==
  [ DefaultRecord EXCEPT !.index = index, !.program = program ]

(***************************************************************************)
(* struct ShardingConfig                                                   *)
(***************************************************************************)
ConfigFields ==
  { "shard_size", "add_len", "mul_len", "sub_len", "bitwise_len",
    "shift_left_len", "shift_right_len", "divrem_len", "lt_len", "field_len",
    "keccak_len", "secp256k1_add_len", "secp256k1_double_len", "bn254_add_len",
    "bn254_double_len", "bls12381_g1_add_len", "bls12381_g1_double_len",
    "bls12381_fp_add_len", "bls12381_fp_sub_len", "bls12381_fp_mul_len",
    "bls12381_fp2_add_len", "bls12381_fp2_sub_len", "bls12381_fp2_mul_len" }

\* ShardingConfig::default() for a given env::shard_size().
DefaultConfig(shard_size) ==
  [ f \in ConfigFields |-> IF f = "field_len" THEN shard_size * 4 ELSE shard_size ]

\* The configs a run may pass to shard().
Configs == { DefaultConfig(l) : l \in 0..MaxChunk }

(***************************************************************************)
(* Byte-lookup maps                                                        *)
(***************************************************************************)
\* BTreeMap::get(k).copied().unwrap_or(0) on an event -> count map.
CountOf(m, e) == IF e \in DOMAIN m THEN m[e] ELSE 0

\* The submap under a shard key, or the empty map.
SubmapOf(bl, s) == IF s \in DOMAIN bl THEN bl[s] ELSE << >>

\* BTreeMap::insert(k, v)
MapInsert(m, k, v) == [ x \in DOMAIN m \cup {k} |-> IF x = k THEN v ELSE m[x] ]

\* BTreeMap::remove(k): the map without the key.
MapRemove(m, k) == [ x \in DOMAIN m \ {k} |-> m[x] ]

\* Variant of AddByteLookupEvent: the shard's submap is started afresh.
AddByteLookupEvent_FreshSubmap(r, blu_event) ==
  [ r EXCEPT !.byte_lookups =
      MapInsert(r.byte_lookups, blu_event.shard, MapInsert(<< >>, blu_event, 1)) ]

\* ByteRecord::add_byte_lookup_event
AddByteLookupEvent(r, blu_event) ==
  LET sub == SubmapOf(r.byte_lookups, blu_event.shard)
      cnt == CountOf(sub, blu_event) + 1
  IN  [ r EXCEPT !.byte_lookups =
          MapInsert(r.byte_lookups, blu_event.shard, MapInsert(sub, blu_event, cnt)) ]

(***************************************************************************)
(* MachineRecord::append                                                   *)
(***************************************************************************)
\* The streams append() moves with Vec::append, in the order of the calls.
AppendedFields ==
  { "cpu_events", "add_events", "sub_events", "mul_events", "bitwise_events",
    "shift_left_events", "shift_right_events", "divrem_events", "lt_events",
    "sha_extend_events", "sha_compress_events", "keccak_permute_events",
    "ed_add_events", "ed_decompress_events", "secp256k1_add_events",
    "secp256k1_double_events", "bn254_add_events", "bn254_double_events",
    "bls12381_g1_add_events", "bls12381_g1_double_events",
    "secp256k1_decompress_events", "blake3_compress_inner_events",
    "bls12381_fp_add_events", "bls12381_fp_sub_events", "bls12381_fp_mul_events",
    "bls12381_fp2_add_events", "bls12381_fp2_sub_events", "bls12381_fp2_mul_events",
    "bls12381_g1_decompress_events", "bls12381_g2_add_events",
    "bls12381_g2_double_events", "memory_initialize_events",
    "memory_finalize_events" }

\* Variant of MergeEventCounts: the incoming count replaces the existing one.
MergeEventCounts_Overwrite(existing, events_map) ==
  [ e \in DOMAIN existing \cup DOMAIN events_map |->
      IF e \in DOMAIN events_map THEN events_map[e] ELSE existing[e] ]

\* Variant of MergeEventCounts: the entry is created at 0 and the count is not
\* added to it.
MergeEventCounts_CountDropped(existing, events_map) ==
  [ e \in DOMAIN existing \cup DOMAIN events_map |-> CountOf(existing, e) ]

\* The Some(existing) arm: *existing.entry(*event).or_insert(0) += count for
\* every (event, count) of events_map.
MergeEventCounts(existing, events_map) ==
  [ e \in DOMAIN existing \cup DOMAIN events_map |->
      IF e \in DOMAIN events_map
        THEN CountOf(existing, e) + events_map[e]
        ELSE existing[e] ]

\* Variant of MergeByteLookups: shard keys that self lacks are not adopted.
MergeByteLookups_NoAdopt(self_lookups, other_lookups) ==
  [ shard \in DOMAIN self_lookups |->
      IF shard \notin DOMAIN other_lookups
        THEN self_lookups[shard]
        ELSE MergeEventCounts(self_lookups[shard], other_lookups[shard]) ]

\* The loop over take(&mut other.byte_lookups): keys of a BTreeMap are
\* distinct, so every shard key of other is handled once.
MergeByteLookups(self_lookups, other_lookups) ==
  [ shard \in DOMAIN self_lookups \cup DOMAIN other_lookups |->
      IF shard \notin DOMAIN other_lookups
        THEN self_lookups[shard]
        ELSE IF shard \in DOMAIN self_lookups
               THEN MergeEventCounts(self_lookups[shard], other_lookups[shard])
               ELSE other_lookups[shard] ]

\* Variant of AppendRec: other's streams are copied, not moved.
AppendRec_OtherKept(self_rec, other_rec) ==
  [ self |->
      [ f \in DOMAIN self_rec |->
          IF f \in AppendedFields THEN self_rec[f] \o other_rec[f]
          ELSE IF f = "byte_lookups"
                 THEN MergeByteLookups(self_rec.byte_lookups, other_rec.byte_lookups)
                 ELSE self_rec[f] ],
    other |->
      [ f \in DOMAIN other_rec |->
          IF f = "byte_lookups" THEN << >> ELSE other_rec[f] ] ]

\* self.append(&mut other): the two records after the call.
AppendRec(self_rec, other_rec) ==
  [ self |->
      [ f \in DOMAIN self_rec |->
          IF f \in AppendedFields THEN self_rec[f] \o other_rec[f]
          ELSE IF f = "byte_lookups"
                 THEN MergeByteLookups(self_rec.byte_lookups, other_rec.byte_lookups)
                 ELSE self_rec[f] ],
    other |->
      [ f \in DOMAIN other_rec |->
          IF f \in AppendedFields THEN << >>
          ELSE IF f = "byte_lookups" THEN << >>
                 ELSE other_rec[f] ] ]

(***************************************************************************)
(* MachineRecord::shard                                                    *)
(***************************************************************************)
\* Variant of NewShard: start_pc is read from the last event of the slice.
NewShard_StartPcOfLast(self_rec, st, events) ==
  [ DefaultRecord EXCEPT
      !.index = st.current_shard,
      !.cpu_events = events,
      !.program = self_rec.program,
      !.byte_lookups =
          MapInsert(<< >>, st.current_shard,
                    SubmapOf(st.byte_lookups, st.current_shard)),
      !.public_values =
          [ committed_value_digest |-> self_rec.public_values.committed_value_digest,
            deferred_proofs_digest |-> self_rec.public_values.deferred_proofs_digest,
            shard |-> st.current_shard,
            start_pc |-> events[Len(events)].pc,
            next_pc |-> events[Len(events)].next_pc,
            exit_code |-> events[Len(events)].exit_code ] ]

\* Variant of NewShard: the record keeps the byte lookups of the whole source.
NewShard_AllLookups(self_rec, st, events) ==
  [ DefaultRecord EXCEPT
      !.index = st.current_shard,
      !.cpu_events = events,
      !.program = self_rec.program,
      !.byte_lookups = self_rec.byte_lookups,
      !.public_values =
          [ committed_value_digest |-> self_rec.public_values.committed_value_digest,
            deferred_proofs_digest |-> self_rec.public_values.deferred_proofs_digest,
            shard |-> st.current_shard,
            start_pc |-> events[1].pc,
            next_pc |-> events[Len(events)].next_pc,
            exit_code |-> events[Len(events)].exit_code ] ]

\* Variant of NewShard: exit_code is read from the first event of the slice.
NewShard_ExitCodeOfFirst(self_rec, st, events) ==
  [ DefaultRecord EXCEPT
      !.index = st.current_shard,
      !.cpu_events = events,
      !.program = self_rec.program,
      !.byte_lookups =
          MapInsert(<< >>, st.current_shard,
                    SubmapOf(st.byte_lookups, st.current_shard)),
      !.public_values =
          [ committed_value_digest |-> self_rec.public_values.committed_value_digest,
            deferred_proofs_digest |-> self_rec.public_values.deferred_proofs_digest,
            shard |-> st.current_shard,
            start_pc |-> events[1].pc,
            next_pc |-> events[Len(events)].next_pc,
            exit_code |-> events[1].exit_code ] ]

\* Variant of NewShard: index and public_values.shard are the position of the
\* record in the output list.
NewShard_IndexFromCount(self_rec, st, events) ==
  [ DefaultRecord EXCEPT
      !.index = Len(st.shards) + 1,
      !.cpu_events = events,
      !.program = self_rec.program,
      !.byte_lookups =
          MapInsert(<< >>, st.current_shard,
                    SubmapOf(st.byte_lookups, st.current_shard)),
      !.public_values =
          [ committed_value_digest |-> self_rec.public_values.committed_value_digest,
            deferred_proofs_digest |-> self_rec.public_values.deferred_proofs_digest,
            shard |-> Len(st.shards) + 1,
            start_pc |-> events[1].pc,
            next_pc |-> events[Len(events)].next_pc,
            exit_code |-> events[Len(events)].exit_code ] ]

\* The output record built inside the CPU loop for the running shard id.
\* st carries the loop's variables; events is self.cpu_events[start_idx..last_idx].
NewShard(self_rec, st, events) ==
  [ DefaultRecord EXCEPT
      !.index = st.current_shard,
      !.cpu_events = events,
      !.program = self_rec.program,
      !.byte_lookups =
          MapInsert(<< >>, st.current_shard,
                    SubmapOf(st.byte_lookups, st.current_shard)),
      !.public_values =
          [ committed_value_digest |-> self_rec.public_values.committed_value_digest,
            deferred_proofs_digest |-> self_rec.public_values.deferred_proofs_digest,
            shard |-> st.current_shard,
            start_pc |-> events[1].pc,
            next_pc |-> events[Len(events)].next_pc,
            exit_code |-> events[Len(events)].exit_code ] ]

\* Variant of NextShardIndex: the running index is not advanced.
NextShardIndex_NotAdvanced(current_shard) == current_shard

\* current_shard += 1 after closing a shard before the last event.  The index
\* is a u32; it is at most the largest shard id plus the number of CPU events,
\* which stays far below 2^32 here, so the increment never overflows.
NextShardIndex(current_shard) == current_shard + 1

\* Variant of NextStartIdx: the next record starts one event early.
NextStartIdx_OneEarly(i) == i - 1

\* start_idx = i: where the next output record starts after a shard was closed
\* at event i.
NextStartIdx(i) == i

\* Variant of CpuPartition: the record open at the end of the stream is not
\* closed.
RECURSIVE CpuPartition_FinalNotClosed(_, _, _)
CpuPartition_FinalNotClosed(self_rec, i, st) ==
  IF i > Len(self_rec.cpu_events) THEN st
  ELSE
    LET cpu_event == self_rec.cpu_events[i]
    IN  IF cpu_event.shard # st.current_shard
          THEN
            LET shard == NewShard(self_rec, st,
                                  SubSeq(self_rec.cpu_events, st.start_idx, i - 1))
            IN  CpuPartition_FinalNotClosed(self_rec, i + 1,
                  [ st EXCEPT
                      !.shards = Append(@, shard),
                      !.byte_lookups = MapRemove(@, st.current_shard),
                      !.start_idx = NextStartIdx(i),
                      !.current_shard = NextShardIndex(@) ])
          ELSE CpuPartition_FinalNotClosed(self_rec, i + 1, st)

\* The CPU loop from event i on (events are numbered from 1, so the slice
\* start_idx..last_idx of the code is SubSeq(start_idx, last_idx - 1) here).
RECURSIVE CpuPartition(_, _, _)
CpuPartition(self_rec, i, st) ==
  IF i > Len(self_rec.cpu_events) THEN st
  ELSE
    LET cpu_event == self_rec.cpu_events[i]
        at_last_event == (i = Len(self_rec.cpu_events))
    IN  IF cpu_event.shard # st.current_shard \/ at_last_event
          THEN
            LET last_idx == IF at_last_event THEN i + 1 ELSE i
                shard == NewShard(self_rec, st,
                                  SubSeq(self_rec.cpu_events, st.start_idx, last_idx - 1))
                pushed == [ st EXCEPT
                              !.shards = Append(@, shard),
                              !.byte_lookups = MapRemove(@, st.current_shard) ]
            IN  CpuPartition(self_rec, i + 1,
                  IF at_last_event THEN pushed
                  ELSE [ pushed EXCEPT
                           !.start_idx = NextStartIdx(i),
                           !.current_shard = NextShardIndex(@) ])
          ELSE CpuPartition(self_rec, i + 1, st)

\* The chunked families and the config field that sets each one's chunk size.
ChunkLenField ==
  [ add_events |-> "add_len", mul_events |-> "mul_len", sub_events |-> "sub_len",
    bitwise_events |-> "bitwise_len", shift_left_events |-> "shift_left_len",
    shift_right_events |-> "shift_right_len", divrem_events |-> "divrem_len",
    lt_events |-> "lt_len", keccak_permute_events |-> "keccak_len",
    secp256k1_add_events |-> "secp256k1_add_len",
    secp256k1_double_events |-> "secp256k1_double_len",
    bn254_add_events |-> "bn254_add_len",
    bn254_double_events |-> "bn254_double_len",
    bls12381_g1_add_events |-> "bls12381_g1_add_len",
    bls12381_g1_double_events |-> "bls12381_g1_double_len",
    bls12381_fp_add_events |-> "bls12381_fp_add_len",
    bls12381_fp_sub_events |-> "bls12381_fp_sub_len",
    bls12381_fp_mul_events |-> "bls12381_fp_mul_len",
    bls12381_fp2_add_events |-> "bls12381_fp2_add_len",
    bls12381_fp2_sub_events |-> "bls12381_fp2_sub_len",
    bls12381_fp2_mul_events |-> "bls12381_fp2_mul_len" ]

ChunkedFields == DOMAIN ChunkLenField

\* The streams moved whole into the first output record.
FirstShardFields ==
  { "bls12381_g2_add_events", "bls12381_g2_double_events",
    "bls12381_g1_decompress_events", "sha_extend_events", "sha_compress_events",
    "ed_add_events", "ed_decompress_events", "secp256k1_decompress_events",
    "blake3_compress_inner_events" }

\* The streams copied into the last output record.
LastShardFields == { "memory_initialize_events", "memory_finalize_events" }

Min(a, b) == IF a <= b THEN a ELSE b

\* slice::chunks_mut(len): the number of chunks and the k-th chunk (k from 1).
NumChunks(events, len) == (Len(events) + len - 1) \div len

\* Variant of Chunk: the chunk runs one event into the next chunk.
Chunk_OneMore(events, len, k) ==
  SubSeq(events, (k - 1) * len + 1, Min(k * len + 1, Len(events)))

Chunk(events, len, k) == SubSeq(events, (k - 1) * len + 1, Min(k * len, Len(events)))

\* Variant of DistributeChunks: the chunks beyond the number of output records
\* are not dropped, the last record takes the rest of the stream.
DistributeChunks_RestIntoLast(shards, self_rec, config) ==
  [ k \in 1..Len(shards) |->
      [ f \in DOMAIN shards[k] |->
          IF f \in ChunkedFields
               /\ k <= NumChunks(self_rec[f], config[ChunkLenField[f]])
            THEN shards[k][f]
                   \o (IF k = Len(shards)
                         THEN SubSeq(self_rec[f], (k - 1) * config[ChunkLenField[f]] + 1,
                                     Len(self_rec[f]))
                         ELSE Chunk(self_rec[f], config[ChunkLenField[f]], k))
            ELSE shards[k][f] ] ]

\* Variant of DistributeChunks: the chunks of the BLS12-381 Fp sub events
\* extend add_events.
DistributeChunks_FpSubIntoAdd(shards, self_rec, config) ==
  [ k \in 1..Len(shards) |->
      [ f \in DOMAIN shards[k] |->
          IF f = "add_events"
               /\ k <= NumChunks(self_rec.bls12381_fp_sub_events,
                                 config.bls12381_fp_sub_len)
            THEN shards[k][f]
                   \o Chunk(self_rec.bls12381_fp_sub_events,
                            config.bls12381_fp_sub_len, k)
            ELSE IF f \in ChunkedFields \ { "bls12381_fp_sub_events" }
                      /\ k <= NumChunks(self_rec[f], config[ChunkLenField[f]])
                   THEN shards[k][f] \o Chunk(self_rec[f], config[ChunkLenField[f]], k)
                   ELSE shards[k][f] ] ]

\* chunks_mut(len).zip(shards.iter_mut()) for every chunked family: the k-th
\* chunk extends the k-th output record; zip stops at the shorter side.
DistributeChunks(shards, self_rec, config) ==
  [ k \in 1..Len(shards) |->
      [ f \in DOMAIN shards[k] |->
          IF f \in ChunkedFields
               /\ k <= NumChunks(self_rec[f], config[ChunkLenField[f]])
            THEN shards[k][f] \o Chunk(self_rec[f], config[ChunkLenField[f]], k)
            ELSE shards[k][f] ] ]

\* Variant of PlaceFirst: the streams go to the last output record.
PlaceFirst_IntoLast(shards, self_rec) ==
  [ shards EXCEPT ![Len(shards)] =
      [ f \in DOMAIN @ |-> IF f \in FirstShardFields THEN self_rec[f] ELSE @[f] ] ]

\* first.<stream> = take(&mut self.<stream>)
PlaceFirst(shards, self_rec) ==
  [ shards EXCEPT ![1] =
      [ f \in DOMAIN @ |-> IF f \in FirstShardFields THEN self_rec[f] ELSE @[f] ] ]

\* Variant of PlaceLast: the streams go to the first output record.
PlaceLast_IntoFirst(shards, self_rec) ==
  [ shards EXCEPT ![1] =
      [ f \in DOMAIN @ |->
          IF f \in LastShardFields THEN @[f] \o self_rec[f] ELSE @[f] ] ]

\* last_shard.<stream>.extend_from_slice(&self.<stream>)
PlaceLast(shards, self_rec) ==
  [ shards EXCEPT ![Len(shards)] =
      [ f \in DOMAIN @ |->
          IF f \in LastShardFields THEN @[f] \o self_rec[f] ELSE @[f] ] ]

\* The panics of shard(): self.cpu_events[0] on an empty stream, and
\* chunks_mut(0) ("chunk size must be non-zero") for any chunked family.
ShardPanics(self_rec, config) ==
  \/ Len(self_rec.cpu_events) = 0
  \/ \E f \in ChunkedFields : config[ChunkLenField[f]] = 0

\* shard(self, config) when it returns: the Vec of output records.
ShardRec(self_rec, config) ==
  LET st0 == [ start_idx |-> 1,
               current_shard |-> self_rec.cpu_events[1].shard,
               shards |-> << >>,
               byte_lookups |-> self_rec.byte_lookups ]
      cpu == CpuPartition(self_rec, 1, st0).shards
  IN  PlaceLast(PlaceFirst(DistributeChunks(cpu, self_rec, config), self_rec), self_rec)

(***************************************************************************)
(* SyscallContext and the memory of the guest                              *)
(***************************************************************************)
\* WORDS_FIELD_ELEMENT: the number of words of a field element (12 for the
\* BLS12-381 base field; the model keeps the layout with 2).
NumWords == 2

\* The number of values of a word (2^32 for u32; the model keeps words of two
\* bits), so that a field element slot holds values below WordModulus^NumWords.
WordModulus == 4

\* FP::modulus(): a prime well below the capacity of a slot, as the
\* BLS12-381 modulus (about 2^381) is below 2^384.
Modulus == 5

\* The byte addresses of the words the guest passes to the precompiles: two
\* operand slots of NumWords words each, 4 bytes to a word.
SlotPtrs == { 0, 8 }
WordAddrs == { ptr + 4 * i : ptr \in SlotPtrs, i \in 0..(NumWords - 1) }

\* The context before the first instruction: clk 0, shard 1, memory zeroed.
InitialContext ==
  [ clk |-> 0, current_shard |-> 1, memory |-> [ addr \in WordAddrs |-> 0 ] ]

\* RowMajorMatrix::new(values, width)
RowMajorMatrix(values, width) == [ values |-> values, width |-> width ]

\* No generate_trace call has been made: pc is "idle", then "rows" while a
\* chip populates its rows in parallel, then "done"; ran holds the chips that
\* have generated their trace.
NoTrace ==
  [ pc |-> "idle", ran |-> {}, chip |-> "none", input |-> "none",
    output |-> "none", pending |-> {}, order |-> << >>, rows |-> << >>,
    buffers |-> << >>, matrix |-> RowMajorMatrix(<< >>, 0) ]

\* No eval has run: no chip, no row, no constraint declared.
NoEval ==
  [ chip |-> "none", local |-> << >>, active |-> {}, failed |-> {},
    accesses |-> << >>, syscall |-> << >> ]

(***************************************************************************)
(* State                                                                   *)
(***************************************************************************)
\* The records of a run: a is the record that is appended to and sharded,
\* b and c are records merged into others.
RecNames == {"a", "b", "c"}

VARIABLES
  recs,      \* RecNames -> ExecutionRecord
  emitted,   \* number of events and byte lookups emitted so far
  shards,    \* the Vec returned by shard()
  outcome,   \* "none" before shard(), then "ok" or "panic"
  call,      \* the last call made on the records
  pre,       \* recs before the last call (NoPre after a plain event push)
  hist,      \* the append calls made since the last event push
  orig,      \* recs before the first call of hist
  rt,        \* the SyscallContext of the interpreter: clk, shard, memory
  trace,     \* the generate_trace call in progress and its result
  air        \* the row a chip's eval last ran on and the constraints it broke

vars == <<recs, emitted, shards, outcome, call, pre, hist, orig, rt, trace, air>>

\* The state of the interpreter and of trace generation, which the operations
\* of the record leave alone.
chipVars == <<rt, trace, air>>

NoCall == [op |-> "push"]
NoPre == << >>

\* The digests the interpreter has committed to record a before the run.
CommittedPublicValues ==
  [ DefaultPublicValues EXCEPT
      !.committed_value_digest = 7, !.deferred_proofs_digest = 9 ]

Init ==
  /\ recs = [ x \in RecNames |->
               IF x = "a"
                 THEN [ NewRecord(0, "program") EXCEPT
                          !.public_values = CommittedPublicValues ]
                 ELSE NewRecord(0, "program") ]
  /\ emitted = 0
  /\ shards = << >>
  /\ outcome = "none"
  /\ call = NoCall
  /\ pre = NoPre
  /\ hist = << >>
  /\ orig = NoPre
  /\ rt = InitialContext
  /\ trace = NoTrace
  /\ air = NoEval

(***************************************************************************)
(* Operations                                                              *)
(***************************************************************************)
\* A plain push of an event onto a stream of record x.
Push(x, f, event) ==
  /\ outcome = "none"
  /\ recs' = [ recs EXCEPT ![x][f] = Append(@, event) ]
  /\ emitted' = emitted + 1
  /\ call' = NoCall
  /\ pre' = NoPre
  /\ hist' = << >>
  /\ orig' = NoPre
  /\ UNCHANGED <<shards, outcome>>
  /\ UNCHANGED chipVars

\* The interpreter pushes a CpuEvent onto cpu_events.
PushCpu(x) == \E cpu_event \in CpuEvents : Push(x, "cpu_events", cpu_event)

\* ExecutionRecord::add_mul_event
AddMulEvent(x) == \E mul_event \in Events : Push(x, "mul_events", mul_event)

\* The runtime pushes a boundary event onto memory_initialize_events.
PushMemoryInitialize(x) ==
  \E event \in MemoryEvents : Push(x, "memory_initialize_events", event)

\* The runtime pushes a boundary event onto memory_finalize_events.
PushMemoryFinalize(x) ==
  \E event \in MemoryEvents : Push(x, "memory_finalize_events", event)

\* ByteRecord::add_byte_lookup_event on record x.
AddByteLookup(x) ==
  \E blu_event \in ByteLookupEvents :
    /\ outcome = "none"
    /\ recs' = [ recs EXCEPT ![x] = AddByteLookupEvent(@, blu_event) ]
    /\ emitted' = emitted + 1
    /\ call' = [ op |-> "add_byte_lookup_event", self |-> x, event |-> blu_event ]
    /\ pre' = recs
    /\ hist' = << >>
    /\ orig' = NoPre
    /\ UNCHANGED <<shards, outcome>>
    /\ UNCHANGED chipVars

\* x.shard(config): consumes the record; returns the output records or panics.
Shard(x) ==
  \E config \in Configs :
    /\ outcome = "none"
    /\ IF ShardPanics(recs[x], config)
         THEN /\ outcome' = "panic"
              /\ shards' = << >>
         ELSE /\ outcome' = "ok"
              /\ shards' = ShardRec(recs[x], config)
    /\ recs' = [ recs EXCEPT ![x] = DefaultRecord ]
    /\ call' = [ op |-> "shard", self |-> x, config |-> config ]
    /\ pre' = recs
    /\ hist' = << >>
    /\ orig' = NoPre
    /\ UNCHANGED emitted
    /\ UNCHANGED chipVars

\* x.append(&mut y) for two distinct records.
AppendTo(x, y) ==
  /\ x # y
  /\ outcome = "none"
  /\ Len(hist) < MaxAppends
  /\ LET res == AppendRec(recs[x], recs[y])
     IN  recs' = [ recs EXCEPT ![x] = res.self, ![y] = res.other ]
  /\ call' = [ op |-> "append", self |-> x, other |-> y ]
  /\ pre' = recs
  /\ hist' = Append(hist, <<x, y>>)
  /\ orig' = IF hist = << >> THEN recs ELSE orig
  /\ UNCHANGED <<emitted, shards, outcome>>
  /\ UNCHANGED chipVars

(***************************************************************************)
(* Specification of sharding: one record is filled, then sharded.          *)
(***************************************************************************)
NextShard ==
  \/ emitted < MaxEvents /\ PushCpu("a")
  \/ emitted < MaxEvents /\ AddMulEvent("a")
  \/ emitted < MaxEvents /\ AddByteLookup("a")
  \/ Shard("a")

SpecShard == Init /\ [][NextShard]_vars

(***************************************************************************)
(* Properties of shard()                                                   *)
(***************************************************************************)
\* shard() has returned its output records.
Returned == call.op = "shard" /\ outcome = "ok"

\* The record shard() was called on.
Source == pre[call.self]

\* The concatenation of a sequence of sequences.
RECURSIVE Flatten(_)
Flatten(seqs) ==
  IF seqs = << >> THEN << >> ELSE Head(seqs) \o Flatten(Tail(seqs))

\* The sum of f[x] over the domain of a function to the naturals.
RECURSIVE SumOver(_, _)
SumOver(f, dom) ==
  IF dom = {} THEN 0
  ELSE LET x == CHOOSE y \in dom : TRUE
       IN  f[x] + SumOver(f, dom \ {x})

\* The sum of all multiplicities of a byte-lookup map.
TotalMultiplicity(bl) ==
  SumOver([ s \in DOMAIN bl |-> SumOver(bl[s], DOMAIN bl[s]) ], DOMAIN bl)

\* Every event's pc is the next_pc of the event before it.
PcChained(events) ==
  \A j \in 2..Len(events) : events[j].pc = events[j - 1].next_pc

\* The shard ids of the events never decrease.
NondecreasingShards(events) ==
  \A j \in 2..Len(events) : events[j - 1].shard <= events[j].shard

\* C1: the cpu_events of the records shard() returns, concatenated in output
\* order, are the source record's cpu_events: nothing lost, duplicated or
\* reordered.
C1_CpuEventsPreserved ==
  Returned =>
    Flatten([ k \in 1..Len(shards) |-> shards[k].cpu_events ]) = Source.cpu_events

\* C1 witness: a source of four events with a shard id that goes down was cut
\* into three records.
C1_Witness ==
  /\ Returned
  /\ Len(shards) = 3
  /\ Len(Source.cpu_events) = 4
  /\ ~NondecreasingShards(Source.cpu_events)

\* Public-value continuity of the output records.
Continuity ==
  \A i \in 2..Len(shards) :
    shards[i].public_values.start_pc = shards[i - 1].public_values.next_pc

\* C2 as stated: for any record and config, start_pc of output record i is
\* next_pc of output record i-1.
C2_ContinuityAnyRecord == Returned => Continuity

\* C2 amended: when every CPU event's pc is the next_pc of the CPU event before
\* it, start_pc of output record i is next_pc of output record i-1.
C2_ContinuityOfChained ==
  (Returned /\ PcChained(Source.cpu_events)) => Continuity

\* C2 witness: a pc-chained source was cut into at least two records.
C2_Witness ==
  /\ Returned
  /\ PcChained(Source.cpu_events)
  /\ Len(shards) >= 2

\* C3: public_values.shard and index of the output records are strictly
\* increasing in output order.
C3_IndicesIncrease ==
  Returned =>
    \A i \in 2..Len(shards) :
      /\ shards[i - 1].public_values.shard < shards[i].public_values.shard
      /\ shards[i - 1].index < shards[i].index

\* C3 witness: three records came out of a source whose shard ids go down.
C3_Witness ==
  /\ Returned
  /\ Len(shards) >= 3
  /\ \E j \in 2..Len(Source.cpu_events) :
       Source.cpu_events[j].shard < Source.cpu_events[j - 1].shard

\* The output records that hold a CPU event of shard id s.
HoldersOf(s) ==
  { k \in 1..Len(shards) :
      \E j \in 1..Len(shards[k].cpu_events) : shards[k].cpu_events[j].shard = s }

\* C4: when the source's CPU events have nondecreasing shard ids, the events of
\* one shard id are all in one output record.
C4_ShardIdNotSplit ==
  (Returned /\ NondecreasingShards(Source.cpu_events)) =>
    \A s \in ShardIds : Cardinality(HoldersOf(s)) <= 1

\* C5: the multiplicities of the output records' byte lookups add up to the
\* multiplicities of the source record's byte lookups.
C5_MultiplicityPreserved ==
  Returned =>
    SumOver([ k \in 1..Len(shards) |-> TotalMultiplicity(shards[k].byte_lookups) ],
            1..Len(shards))
      = TotalMultiplicity(Source.byte_lookups)

\* C6: the output record of index s has byte_lookups with the one key s, mapped
\* to the source's submap for s (empty when the source has none), and no two
\* output records share a key.
C6_LookupsByShard ==
  Returned =>
    /\ \A k \in 1..Len(shards) :
         /\ DOMAIN shards[k].byte_lookups = { shards[k].index }
         /\ shards[k].byte_lookups[shards[k].index]
              = SubmapOf(Source.byte_lookups, shards[k].index)
    /\ \A k1, k2 \in 1..Len(shards) :
         k1 # k2 => DOMAIN shards[k1].byte_lookups # DOMAIN shards[k2].byte_lookups

\* C6 witness: of two output records one took a non-empty submap from the
\* source and the other got the empty default.
C6_Witness ==
  /\ Returned
  /\ \E k1, k2 \in 1..Len(shards) :
       /\ shards[k1].byte_lookups[shards[k1].index] # << >>
       /\ shards[k2].index \notin DOMAIN Source.byte_lookups
       /\ shards[k2].byte_lookups[shards[k2].index] = << >>

(***************************************************************************)
(* Specification of merging: two records are filled and appended to one    *)
(* another, in either direction.                                           *)
(***************************************************************************)
MergeNames == {"a", "b"}

NextAppend ==
  \/ emitted < MaxMergeEvents /\ \E x \in MergeNames : PushCpu(x)
  \/ emitted < MaxMergeEvents /\ \E x \in MergeNames : AddMulEvent(x)
  \/ emitted < MaxMergeEvents /\ \E x \in MergeNames : AddByteLookup(x)
  \/ \E x, y \in MergeNames : AppendTo(x, y)

SpecAppend == Init /\ [][NextAppend]_vars

(***************************************************************************)
(* Specification of nested merging: three records a, b, c are filled and   *)
(* merged into a, either as (a.append(b)).append(c) or as                  *)
(* a.append(b.append(c)).                                                  *)
(***************************************************************************)
\* a.append(b): the first call of the left nesting, the last of the right one.
MergeAB ==
  /\ hist \in { << >>, << <<"b", "c">> >> }
  /\ AppendTo("a", "b")

\* a.append(c) after a.append(b).
MergeAC ==
  /\ hist = << <<"a", "b">> >>
  /\ AppendTo("a", "c")

\* b.append(c) before a.append(b).
MergeBC ==
  /\ hist = << >>
  /\ AppendTo("b", "c")

NextAssoc ==
  \/ emitted < MaxMergeEvents /\ \E x \in RecNames : AddMulEvent(x)
  \/ emitted < MaxMergeEvents /\ \E x \in RecNames : AddByteLookup(x)
  \/ MergeAB
  \/ MergeAC
  \/ MergeBC

SpecAssoc == Init /\ [][NextAssoc]_vars

(***************************************************************************)
(* Properties of append() and add_byte_lookup_event()                      *)
(***************************************************************************)
\* x.append(y) was the last call.
AppendDone == call.op = "append"

\* The multiplicity a byte-lookup map holds for event e under shard key s,
\* an absent entry counting as 0.
MultAt(bl, s, e) == CountOf(SubmapOf(bl, s), e)

\* The (shard key, event) entries present in a byte-lookup map.
EntriesOf(bl) == { <<s, e>> \in ShardIds \X ByteLookupEvents :
                     s \in DOMAIN bl /\ e \in DOMAIN bl[s] }

\* C7: after self.append(other) every (shard, event) multiplicity of self is
\* what self held plus what other held, and the entries present are those of
\* either record.
C7_MultiplicitiesSum ==
  AppendDone =>
    LET now == recs[call.self].byte_lookups
        mine == pre[call.self].byte_lookups
        theirs == pre[call.other].byte_lookups
    IN  /\ \A s \in ShardIds, e \in ByteLookupEvents :
             MultAt(now, s, e) = MultAt(mine, s, e) + MultAt(theirs, s, e)
        /\ EntriesOf(now) = EntriesOf(mine) \cup EntriesOf(theirs)
        /\ DOMAIN now = DOMAIN mine \cup DOMAIN theirs

\* C7 witness: the records shared an entry, and other brought a shard key that
\* self did not have.
C7_Witness ==
  /\ AppendDone
  /\ EntriesOf(pre[call.self].byte_lookups)
       \cap EntriesOf(pre[call.other].byte_lookups) # {}
  /\ DOMAIN pre[call.other].byte_lookups \ DOMAIN pre[call.self].byte_lookups # {}

\* C8: after self.append(other) every stream of self is its old content
\* followed by other's old content, and other's streams and byte_lookups are
\* empty.
C8_StreamsConcatenated ==
  AppendDone =>
    /\ \A f \in VecFields :
         /\ recs[call.self][f] = pre[call.self][f] \o pre[call.other][f]
         /\ recs[call.other][f] = << >>
    /\ recs[call.other].byte_lookups = << >>

\* C8 witness: both records held CPU events, not the same ones, and other held
\* byte lookups.
C8_Witness ==
  /\ AppendDone
  /\ pre[call.self].cpu_events # << >>
  /\ pre[call.other].cpu_events # << >>
  /\ pre[call.self].cpu_events # pre[call.other].cpu_events
  /\ pre[call.other].byte_lookups # << >>

\* The shard keys of the byte lookups of the three records are pairwise disjoint.
DisjointKeys(rs) ==
  \A x, y \in RecNames :
    x # y => DOMAIN rs[x].byte_lookups \cap DOMAIN rs[y].byte_lookups = {}

\* (a.append(b)).append(c) and a.append(b.append(c)), computed from rs.
LeftNested(rs) == AppendRec(AppendRec(rs["a"], rs["b"]).self, rs["c"]).self

RightNested(rs) == AppendRec(rs["a"], AppendRec(rs["b"], rs["c"]).self).self

\* Two records have the same event streams and the same byte-lookup map.
SameContent(r1, r2) ==
  /\ \A f \in VecFields : r1[f] = r2[f]
  /\ r1.byte_lookups = r2.byte_lookups

\* Associativity: the record a that the calls of hist produced is the record
\* the other nesting yields.
Associative ==
  /\ (hist = << <<"a", "b">>, <<"a", "c">> >> /\ DisjointKeys(orig))
       => recs["a"] = RightNested(orig)
  /\ (hist = << <<"b", "c">>, <<"a", "b">> >> /\ DisjointKeys(orig))
       => recs["a"] = LeftNested(orig)

\* C9 as stated: append is associative, and a.append(b) has the event streams
\* and the byte-lookup map of b.append(a), for records with disjoint
\* byte-lookup keys.
C9_AssociativeCommutative ==
  /\ Associative
  /\ (hist = << <<"a", "b">> >> /\ DisjointKeys(orig))
       => SameContent(recs["a"], AppendRec(orig["b"], orig["a"]).self)

\* C9 amended: append is associative, and a.append(b) has the byte-lookup map
\* of b.append(a), for records with disjoint byte-lookup keys (the event
\* streams of a.append(b) are a's followed by b's, those of b.append(a) are
\* b's followed by a's).
C9_AssociativeLookupsCommute ==
  /\ Associative
  /\ (hist = << <<"a", "b">> >> /\ DisjointKeys(orig))
       => /\ recs["a"].byte_lookups
               = AppendRec(orig["b"], orig["a"]).self.byte_lookups
          /\ \A f \in VecFields :
               /\ recs["a"][f] = orig["a"][f] \o orig["b"][f]
               /\ AppendRec(orig["b"], orig["a"]).self[f] = orig["b"][f] \o orig["a"][f]

\* C9 witness: three records with byte lookups under three different shard
\* keys were merged into a by two nested appends.
C9_Witness ==
  /\ Len(hist) = 2
  /\ DisjointKeys(orig)
  /\ \A x \in RecNames : orig[x].byte_lookups # << >>

\* C10: add_byte_lookup_event(e) raises the multiplicity of e under e.shard by
\* one (from 0 when absent), adds no other entry, changes no other
\* multiplicity and leaves the streams and every other field and record
\* unchanged.
C10_AddByteLookupEffect ==
  call.op = "add_byte_lookup_event" =>
    LET x == call.self
        e == call.event
        now == recs[x].byte_lookups
        was == pre[x].byte_lookups
    IN  /\ MultAt(now, e.shard, e) = MultAt(was, e.shard, e) + 1
        /\ EntriesOf(now) = EntriesOf(was) \cup { <<e.shard, e>> }
        /\ DOMAIN now = DOMAIN was \cup { e.shard }
        /\ \A s \in ShardIds, e2 \in ByteLookupEvents :
             <<s, e2>> # <<e.shard, e>> => MultAt(now, s, e2) = MultAt(was, s, e2)
        /\ \A f \in DOMAIN recs[x] :
             f # "byte_lookups" => recs[x][f] = pre[x][f]
        /\ \A y \in RecNames : y # x => recs[y] = pre[y]

\* C10 witness: the event was already counted, next to another event of its
\* shard and an entry of another shard, in a record that holds a CPU event.
C10_Witness ==
  /\ call.op = "add_byte_lookup_event"
  /\ MultAt(pre[call.self].byte_lookups, call.event.shard, call.event) >= 1
  /\ Cardinality(EntriesOf(pre[call.self].byte_lookups)) >= 2
  /\ Cardinality(DOMAIN pre[call.self].byte_lookups) >= 2
  /\ recs[call.self].byte_lookups[call.event.shard][call.event] >= 2

(***************************************************************************)
(* Specification of the byte-lookup map's life: lookups are recorded in    *)
(* two records, the records are appended to one another, and record a is   *)
(* sharded.                                                                *)
(***************************************************************************)
NextLookups ==
  \/ emitted < MaxMergeEvents /\ PushCpu("a")
  \/ emitted < MaxMergeEvents /\ \E x \in MergeNames : AddByteLookup(x)
  \/ \E x, y \in MergeNames : AppendTo(x, y)
  \/ Shard("a")

SpecLookups == Init /\ [][NextLookups]_vars

\* Every multiplicity stored in a byte-lookup map is at least 1.
PositiveMultiplicities(bl) ==
  \A s \in DOMAIN bl : \A e \in DOMAIN bl[s] : bl[s][e] >= 1

\* C11: in every record reached from the empty record by
\* add_byte_lookup_event, append and shard, and in every record shard()
\* returns, every stored byte-lookup multiplicity is at least 1.
C11_MultiplicitiesPositive ==
  /\ \A x \in RecNames : PositiveMultiplicities(recs[x].byte_lookups)
  /\ \A k \in 1..Len(shards) : PositiveMultiplicities(shards[k].byte_lookups)

\* C11 witness: shard() returned a record that holds a multiplicity of 2 or
\* more.
C11_Witness ==
  /\ Returned
  /\ \E k \in 1..Len(shards) :
       \E e \in DOMAIN shards[k].byte_lookups[shards[k].index] :
         shards[k].byte_lookups[shards[k].index][e] >= 2

(***************************************************************************)
(* Properties of shard(): aborts and edge cases                            *)
(***************************************************************************)
\* shard() was the last call, whether it returned or aborted.
ShardCalled == call.op = "shard"

\* Every length of a config is positive.
PositiveLengths(config) == \A f \in ConfigFields : config[f] > 0

\* C12: shard() on a record without CPU events aborts; when it returns, the
\* list is not empty; and on a record with a CPU event and a config of
\* positive lengths it returns, with at least one record.
C12_EmptyAbortsElseNonEmpty ==
  ShardCalled =>
    /\ (Len(Source.cpu_events) = 0 => outcome = "panic")
    /\ (outcome = "ok" => Len(shards) >= 1)
    /\ (Len(Source.cpu_events) >= 1 /\ PositiveLengths(call.config))
         => (outcome = "ok" /\ Len(shards) >= 1)

\* C12 witness: shard() aborted on a record that held lookups and mul events
\* but no CPU event, under a config of positive lengths.
C12_Witness ==
  /\ ShardCalled
  /\ outcome = "panic"
  /\ Source.cpu_events = << >>
  /\ Source.mul_events # << >>
  /\ Source.byte_lookups # << >>
  /\ PositiveLengths(call.config)

(***************************************************************************)
(* Field subtraction syscall: create_fp_sub_event                          *)
(***************************************************************************)
\* Number of field subtraction syscalls in a run.
MaxSyscalls == 2

\* The pointers a guest may pass: the two slots and an unaligned address.
SyscallPtrs == SlotPtrs \cup { 2 }

\* BigUint::from_slice: the little-endian value of a sequence of words.
RECURSIVE FromSlice(_)
FromSlice(words) ==
  IF words = << >> THEN 0
  ELSE Head(words) + WordModulus * FromSlice(Tail(words))

\* FP::to_limbs followed by bytes_to_words_le: the len little-endian words of
\* a value.
RECURSIVE ToWords(_, _)
ToWords(value, len) ==
  IF len = 0 THEN << >>
  ELSE << value % WordModulus >> \o ToWords(value \div WordModulus, len - 1)

\* The address of the i-th word (i from 1) of the slot at ptr.
WordAddr(ptr, i) == ptr + 4 * (i - 1)

\* rt.slice_unsafe(addr, len): the words at addr, without recording accesses.
SliceUnsafe(ctx, addr, len) ==
  [ i \in 1..len |-> ctx.memory[WordAddr(addr, i)] ]

\* rt.mr_slice(addr, len): one read record per word, stamped with the
\* context's shard and clk, and the words read.
MrSlice(ctx, addr, len) ==
  [ records |->
      [ i \in 1..len |->
          [ shard |-> ctx.current_shard, clk |-> ctx.clk,
            addr |-> WordAddr(addr, i),
            prev_value |-> ctx.memory[WordAddr(addr, i)],
            value |-> ctx.memory[WordAddr(addr, i)] ] ],
    values |-> SliceUnsafe(ctx, addr, len) ]

\* rt.mw_slice(addr, words): one write record per word, stamped with the
\* context's shard and clk, and the memory after the writes.
MwSlice(ctx, addr, words) ==
  [ records |->
      [ i \in 1..Len(words) |->
          [ shard |-> ctx.current_shard, clk |-> ctx.clk,
            addr |-> WordAddr(addr, i),
            prev_value |-> ctx.memory[WordAddr(addr, i)],
            value |-> words[i] ] ],
    memory |->
      [ a \in DOMAIN ctx.memory |->
          IF \E i \in 1..Len(words) : a = WordAddr(addr, i)
            THEN words[CHOOSE i \in 1..Len(words) : a = WordAddr(addr, i)]
            ELSE ctx.memory[a] ] ]

\* The aborts of create_fp_sub_event: the two alignment assertions, and the
\* BigUint subtraction (modulus + p) - q, which panics when q is the larger.
CreateFpSubEventPanics(ctx, arg1, arg2) ==
  \/ arg1 % 4 # 0
  \/ arg2 % 4 # 0
  \/ Modulus + FromSlice(SliceUnsafe(ctx, arg1, NumWords))
       < FromSlice(MrSlice(ctx, arg2, NumWords).values)

\* Variant of CreateFpSubEvent: the clk is not advanced before the write.
CreateFpSubEvent_ClkNotAdvanced(ctx, arg1, arg2) ==
  LET start_clk == ctx.clk
      p_ptr == arg1
      q_ptr == arg2
      q_read == MrSlice(ctx, q_ptr, NumWords)
      q == q_read.values
      p == SliceUnsafe(ctx, p_ptr, NumWords)
      result_int == (Modulus + FromSlice(p) - FromSlice(q)) % Modulus
      result_words == ToWords(result_int, NumWords)
      p_write == MwSlice(ctx, p_ptr, result_words)
  IN  [ rt |-> [ ctx EXCEPT !.memory = p_write.memory ],
        event |->
          [ shard |-> ctx.current_shard, clk |-> start_clk,
            p_ptr |-> p_ptr, p |-> p, q_ptr |-> q_ptr, q |-> q,
            p_memory_records |-> p_write.records,
            q_memory_records |-> q_read.records ] ]

\* Variant of CreateFpSubEvent: the difference is not reduced by the modulus.
CreateFpSubEvent_NotReduced(ctx, arg1, arg2) ==
  LET start_clk == ctx.clk
      p_ptr == arg1
      q_ptr == arg2
      q_read == MrSlice(ctx, q_ptr, NumWords)
      q == q_read.values
      p == SliceUnsafe(ctx, p_ptr, NumWords)
      result_int == Modulus + FromSlice(p) - FromSlice(q)
      result_words == ToWords(result_int, NumWords)
      at_write == [ ctx EXCEPT !.clk = @ + 1 ]
      p_write == MwSlice(at_write, p_ptr, result_words)
  IN  [ rt |-> [ at_write EXCEPT !.memory = p_write.memory ],
        event |->
          [ shard |-> at_write.current_shard, clk |-> start_clk,
            p_ptr |-> p_ptr, p |-> p, q_ptr |-> q_ptr, q |-> q,
            p_memory_records |-> p_write.records,
            q_memory_records |-> q_read.records ] ]

\* create_fp_sub_event(rt, arg1, arg2) when it returns: the context after the
\* call and the event.  rt.clk is a u32 that stays far below 2^32 here.
CreateFpSubEvent(ctx, arg1, arg2) ==
  LET start_clk == ctx.clk
      p_ptr == arg1
      q_ptr == arg2
      q_read == MrSlice(ctx, q_ptr, NumWords)
      q == q_read.values
      p == SliceUnsafe(ctx, p_ptr, NumWords)
      result_int == (Modulus + FromSlice(p) - FromSlice(q)) % Modulus
      result_words == ToWords(result_int, NumWords)
      at_write == [ ctx EXCEPT !.clk = @ + 1 ]
      p_write == MwSlice(at_write, p_ptr, result_words)
  IN  [ rt |-> [ at_write EXCEPT !.memory = p_write.memory ],
        event |->
          [ shard |-> at_write.current_shard, clk |-> start_clk,
            p_ptr |-> p_ptr, p |-> p, q_ptr |-> q_ptr, q |-> q,
            p_memory_records |-> p_write.records,
            q_memory_records |-> q_read.records ] ]

\* The guest stores a word into an operand slot, before its first syscall.
GuestStore(x) ==
  \E addr \in WordAddrs, word \in 0..(WordModulus - 1) :
    /\ outcome = "none"
    /\ recs[x].bls12381_fp_sub_events = << >>
    /\ rt.memory[addr] # word
    /\ rt' = [ rt EXCEPT !.memory[addr] = word ]
    /\ call' = NoCall
    /\ pre' = NoPre
    /\ UNCHANGED <<recs, emitted, shards, outcome, hist, orig, trace, air>>

\* The BLS12381_FP_SUB syscall of the guest: create_fp_sub_event on the
\* interpreter's context, and the event pushed onto the record's stream.
FpSub(x) ==
  \E arg1, arg2 \in SyscallPtrs :
    /\ outcome = "none"
    /\ Len(recs[x].bls12381_fp_sub_events) < MaxSyscalls
    /\ IF CreateFpSubEventPanics(rt, arg1, arg2)
         THEN /\ outcome' = "panic"
              /\ UNCHANGED <<recs, rt>>
         ELSE LET res == CreateFpSubEvent(rt, arg1, arg2)
              IN  /\ rt' = res.rt
                  /\ recs' = [ recs EXCEPT
                                 ![x].bls12381_fp_sub_events = Append(@, res.event) ]
                  /\ UNCHANGED outcome
    /\ call' = [ op |-> "create_fp_sub_event", self |-> x,
                 arg1 |-> arg1, arg2 |-> arg2, rt |-> rt ]
    /\ pre' = recs
    /\ UNCHANGED <<emitted, shards, hist, orig, trace, air>>

NextFpSub ==
  \/ GuestStore("a")
  \/ FpSub("a")

SpecFpSub == Init /\ [][NextFpSub]_vars

(***************************************************************************)
(* Properties of create_fp_sub_event                                       *)
(***************************************************************************)
\* create_fp_sub_event was the last call, with aligned pointers.
FpSubCalled ==
  /\ call.op = "create_fp_sub_event"
  /\ call.arg1 % 4 = 0
  /\ call.arg2 % 4 = 0

\* The operands the call found in memory, and the value it left at p_ptr.
OperandP == FromSlice(SliceUnsafe(call.rt, call.arg1, NumWords))

OperandQ == FromSlice(SliceUnsafe(call.rt, call.arg2, NumWords))

ResultR == FromSlice(SliceUnsafe(rt, call.arg1, NumWords))

\* C16: for all operand values p and q that fit the word arrays,
\* create_fp_sub_event completes and leaves at p_ptr the value
\* r = (modulus + p - q) mod modulus, with 0 <= r < modulus and r + q
\* congruent to p modulo the modulus.
C16_FpSubResult ==
  FpSubCalled =>
    /\ outcome # "panic"
    /\ ResultR = (Modulus + OperandP - OperandQ) % Modulus
    /\ 0 <= ResultR /\ ResultR < Modulus
    /\ (ResultR + OperandQ) % Modulus = OperandP % Modulus

\* The part of C16 that the code meets: whenever the call returns, the value
\* at p_ptr is the reduced difference.
FpSubResultWhenReturned ==
  (FpSubCalled /\ outcome # "panic") =>
    /\ ResultR = (Modulus + OperandP - OperandQ) % Modulus
    /\ 0 <= ResultR /\ ResultR < Modulus
    /\ (ResultR + OperandQ) % Modulus = OperandP % Modulus

(***************************************************************************)
(* Precompile events, as the syscall handlers build them                   *)
(***************************************************************************)
\* Number of precompile events and byte lookups emitted before the traces
\* are generated.
MaxTraceEvents == 3

\* The shards in which the precompile syscalls of a run execute.
TraceShards == { 1, 2 }

\* The context of a syscall executed in shard s: the operand slot at 0 holds
\* the value 3 and the slot at 8 holds 1.
ContextIn(s) ==
  [ clk |-> 4 * s, current_shard |-> s,
    memory |-> [ addr \in WordAddrs |-> IF addr = 0 THEN 3 ELSE IF addr = 8 THEN 1 ELSE 0 ] ]

\* The FieldSubEvents create_fp_sub_event returns for p_ptr = 0, q_ptr = 8.
FieldSubEvents == { CreateFpSubEvent(ContextIn(s), 0, 8).event : s \in TraceShards }

\* The EdDecompressEvents execute() pushes for the identity point (y = 1,
\* sign = 0, x = 0) with the y half in the slot at 8 and x written at 0.
EdDecompressEvents ==
  { [ shard |-> s, clk |-> ContextIn(s).clk, ptr |-> 0, sign |-> 0,
      y_bytes |-> FromSlice(MrSlice(ContextIn(s), 8, NumWords).values),
      decompressed_x_bytes |-> 0,
      x_memory_records |-> MwSlice(ContextIn(s), 0, ToWords(0, NumWords)).records,
      y_memory_records |-> MrSlice(ContextIn(s), 8, NumWords).records ] :
    s \in TraceShards }

\* The curve of the Weierstrass chip, y^2 = x^3 + b over the model's field:
\* E::b_int() and the x coordinate of E::generator().
CurveB == 1
GeneratorX == 2

\* The decompression events of the Weierstrass chip: x read from the slot at
\* 8, y written to the slot at 0.
WeierstrassDecompressEvents ==
  { [ shard |-> s, clk |-> ContextIn(s).clk, ptr |-> 0, is_odd |-> 0,
      x_bytes |-> FromSlice(MrSlice(ContextIn(s), 8, NumWords).values),
      x_memory_records |-> MrSlice(ContextIn(s), 8, NumWords).records,
      y_memory_records |-> MwSlice(ContextIn(s), 0, ToWords(0, NumWords)).records ] :
    s \in TraceShards }

\* execute() pushes the event onto the record of the interpreter.
PushEdDecompressEvent(x) ==
  \E event \in EdDecompressEvents : Push(x, "ed_decompress_events", event)

PushWeierstrassDecompressEvent(x) ==
  \E event \in WeierstrassDecompressEvents :
    Push(x, "secp256k1_decompress_events", event)

PushFieldSubEvent(x) ==
  \E event \in FieldSubEvents : Push(x, "bls12381_fp_sub_events", event)

(***************************************************************************)
(* Column population                                                       *)
(***************************************************************************)
\* The field operations of FieldOpCols::populate and FieldSqrtCols::populate
\* over the model's field: the result limbs, as a value.
FieldInverse(b) ==
  IF \E r \in 0..(Modulus - 1) : (r * b) % Modulus = 1
    THEN CHOOSE r \in 0..(Modulus - 1) : (r * b) % Modulus = 1
    ELSE 0

FieldOp(a, b, op) ==
  CASE op = "Add" -> (a + b) % Modulus
    [] op = "Sub" -> (Modulus + (a % Modulus) - (b % Modulus)) % Modulus
    [] op = "Mul" -> (a * b) % Modulus
    [] op = "Div" -> (a * FieldInverse(b)) % Modulus

FieldSqrt(a) ==
  IF \E r \in 0..(Modulus - 1) : (r * r) % Modulus = a % Modulus
    THEN CHOOSE r \in 0..(Modulus - 1) : (r * r) % Modulus = a % Modulus
    ELSE 0

\* MemoryReadCols::populate / MemoryWriteCols::populate: the value cell of
\* the access column, and the byte lookup it appends, under the shard of the
\* memory record.
AccessCell(record) == record.value

AccessLookups(record) == << [ shard |-> record.shard, opcode |-> "U8Range" ] >>

\* The byte lookup a field-operation populator appends when it is given a
\* byte-lookup buffer and a shard.
FieldOpLookups(shard) == << [ shard |-> shard, opcode |-> "U8Range" ] >>

\* add_byte_lookup_events: add_byte_lookup_event for every event, in order.
RECURSIVE AddByteLookupEvents(_, _)
AddByteLookupEvents(r, blu_events) ==
  IF blu_events = << >> THEN r
  ELSE AddByteLookupEvents(AddByteLookupEvent(r, Head(blu_events)), Tail(blu_events))

\* usize::next_power_of_two: the smallest power of two that is at least n.
RECURSIVE PowerOfTwoFrom(_, _)
PowerOfTwoFrom(power, n) ==
  IF power >= n THEN power ELSE PowerOfTwoFrom(2 * power, n)

NextPowerOfTwo(n) == PowerOfTwoFrom(1, n)

\* pad_vec_rows(rows, row_fn): the rows followed by copies of row_fn() up to
\* the next power of two.
PadVecRows(rows, dummy_row) ==
  rows \o [ i \in 1..(NextPowerOfTwo(Len(rows)) - Len(rows)) |-> dummy_row ]

\* vec![F::zero(); n]
ZeroCells(n) == [ i \in 1..n |-> 0 ]

(***************************************************************************)
(* EdDecompressChip: rows and generate_trace                               *)
(***************************************************************************)
\* E::d_biguint(): the curve constant d, in the model's field.
EdwardsD == 2

\* size_of::<EdDecompressCols<u8, P>>(): is_real, shard, clk, ptr, sign, the
\* x and y access columns, and the eight field-operation columns.
EdDecompressWidth == 5 + 2 * NumWords + 8

\* populate_field_ops: the cells y_range, yy, u, dyy, v, u_div_v, x, neg_x.
EdFieldOps(y) ==
  LET yy == FieldOp(y, y, "Mul")
      u == FieldOp(yy, 1, "Sub")
      dyy == FieldOp(EdwardsD, yy, "Mul")
      v == FieldOp(1, dyy, "Add")
      u_div_v == FieldOp(u, v, "Div")
      x == FieldSqrt(u_div_v)
      neg_x == FieldOp(0, x, "Sub")
  IN  << y, yy, u, dyy, v, u_div_v, x, neg_x >>

\* The byte lookups populate_field_ops appends: one buffer use per populator.
EdFieldOpsLookups(shard) ==
  Flatten([ k \in 1..8 |-> FieldOpLookups(shard) ])

\* EdDecompressCols::populate: the row of an event.
EdDecompressRow(event) ==
  << 1, event.shard, event.clk, event.ptr, event.sign >>
    \o [ i \in 1..NumWords |-> AccessCell(event.x_memory_records[i]) ]
    \o [ i \in 1..NumWords |-> AccessCell(event.y_memory_records[i]) ]
    \o EdFieldOps(event.y_bytes)

\* EdDecompressCols::populate: the byte lookups it hands to the record.
EdDecompressLookups(event) ==
  Flatten([ i \in 1..NumWords |->
              AccessLookups(event.x_memory_records[i])
                \o AccessLookups(event.y_memory_records[i]) ])
    \o EdFieldOpsLookups(event.shard)

\* The dummy row of pad_vec_rows: a zeroed row with populate_field_ops(0, 0).
EdDecompressPaddingRow == ZeroCells(5 + 2 * NumWords) \o EdFieldOps(0)

\* Variant of EdDecompressGenerateTrace: the byte lookups of the padding
\* row's populate_field_ops are handed to the output record.
EdDecompressGenerateTrace_PaddingLookups(input, output) ==
  LET events == input.ed_decompress_events
      rows == [ i \in 1..Len(events) |-> EdDecompressRow(events[i]) ]
      populated ==
        AddByteLookupEvents(output,
          Flatten([ i \in 1..Len(events) |-> EdDecompressLookups(events[i]) ]))
      padded == PadVecRows(rows, EdDecompressPaddingRow)
  IN  [ matrix |-> RowMajorMatrix(Flatten(padded), EdDecompressWidth),
        output |-> AddByteLookupEvents(populated, EdFieldOpsLookups(0)) ]

\* EdDecompressChip::generate_trace(input, output): the matrix and the output
\* record after the call.
EdDecompressGenerateTrace(input, output) ==
  LET events == input.ed_decompress_events
      rows == [ i \in 1..Len(events) |-> EdDecompressRow(events[i]) ]
      populated ==
        AddByteLookupEvents(output,
          Flatten([ i \in 1..Len(events) |-> EdDecompressLookups(events[i]) ]))
      padded == PadVecRows(rows, EdDecompressPaddingRow)
  IN  [ matrix |-> RowMajorMatrix(Flatten(padded), EdDecompressWidth),
        output |-> populated ]

(***************************************************************************)
(* WeierstrassDecompressChip: rows and generate_trace                      *)
(***************************************************************************)
\* size_of::<WeierstrassDecompressCols<u8, U>>(): is_real, shard, clk, ptr,
\* is_odd, the x and y access columns, five field-operation columns and the
\* eight y_least_bits.
WeierstrassDecompressWidth == 5 + 2 * NumWords + 5 + 8

\* (y_lsb >> i) & 1
BitOf(byte, i) ==
  LET RECURSIVE Shr(_, _)
      Shr(v, k) == IF k = 0 THEN v ELSE Shr(v \div 2, k - 1)
  IN  Shr(byte, i) % 2

\* populate_field_ops: the cells x_2, x_3, x_3_plus_b, y, neg_y and
\* y_least_bits[0..8].
WeierstrassFieldOps(x) ==
  LET x_2 == FieldOp(x, x, "Mul")
      x_3 == FieldOp(x_2, x, "Mul")
      x_3_plus_b == FieldOp(x_3, CurveB, "Add")
      y == FieldSqrt(x_3_plus_b)
      neg_y == FieldOp(0, y, "Sub")
  IN  << x_2, x_3, x_3_plus_b, y, neg_y >> \o [ i \in 1..8 |-> BitOf(y, i - 1) ]

\* The row generate_trace builds for an event.
WeierstrassDecompressRow(event) ==
  << 1, event.shard, event.clk, event.ptr, event.is_odd >>
    \o [ i \in 1..NumWords |-> AccessCell(event.x_memory_records[i]) ]
    \o [ i \in 1..NumWords |-> AccessCell(event.y_memory_records[i]) ]
    \o WeierstrassFieldOps(event.x_bytes)

\* The byte lookups the row's access columns append to the buffer.
WeierstrassDecompressLookups(event) ==
  Flatten([ i \in 1..NumWords |-> AccessLookups(event.x_memory_records[i]) ])
    \o Flatten([ i \in 1..NumWords |-> AccessLookups(event.y_memory_records[i]) ])

\* The dummy row of pad_vec_rows: x of the generator in the x access columns
\* and populate_field_ops on it.
WeierstrassDecompressPaddingRow ==
  ZeroCells(5) \o ToWords(GeneratorX, NumWords) \o ZeroCells(NumWords)
    \o WeierstrassFieldOps(GeneratorX)

\* Variant of WeierstrassDecompressGenerateTrace: the rows are not padded.
WeierstrassDecompressGenerateTrace_NotPadded(input, output) ==
  LET events == input.secp256k1_decompress_events
      rows == [ i \in 1..Len(events) |-> WeierstrassDecompressRow(events[i]) ]
      new_byte_lookup_events ==
        Flatten([ i \in 1..Len(events) |-> WeierstrassDecompressLookups(events[i]) ])
  IN  [ matrix |-> RowMajorMatrix(Flatten(rows), WeierstrassDecompressWidth),
        output |-> AddByteLookupEvents(output, new_byte_lookup_events) ]

\* WeierstrassDecompressChip::generate_trace(input, output) for secp256k1: the
\* matrix and the output record after the call.
WeierstrassDecompressGenerateTrace(input, output) ==
  LET events == input.secp256k1_decompress_events
      rows == [ i \in 1..Len(events) |-> WeierstrassDecompressRow(events[i]) ]
      new_byte_lookup_events ==
        Flatten([ i \in 1..Len(events) |-> WeierstrassDecompressLookups(events[i]) ])
      padded == PadVecRows(rows, WeierstrassDecompressPaddingRow)
  IN  [ matrix |-> RowMajorMatrix(Flatten(padded), WeierstrassDecompressWidth),
        output |-> AddByteLookupEvents(output, new_byte_lookup_events) ]

(***************************************************************************)
(* FieldSubChip: rows and generate_trace                                   *)
(***************************************************************************)
\* size_of::<FieldSubCols<u8, FP>>(): is_real, shard, clk, p_ptr, q_ptr, the
\* p and q access columns and p_sub_q.
FieldSubWidth == 5 + 2 * NumWords + 1

\* The closure of par_iter().map(..): the row of an event.
FieldSubRow(event) ==
  << 1, event.shard, event.clk, event.p_ptr, event.q_ptr >>
    \o [ i \in 1..NumWords |-> AccessCell(event.p_memory_records[i]) ]
    \o [ i \in 1..NumWords |-> AccessCell(event.q_memory_records[i]) ]
    \o << FieldOp(FromSlice(event.p), FromSlice(event.q), "Sub") >>

\* The closure of par_iter().map(..): the byte lookups of an event's row, the
\* q accesses first.
FieldSubLookups(event) ==
  Flatten([ i \in 1..NumWords |-> AccessLookups(event.q_memory_records[i]) ])
    \o Flatten([ i \in 1..NumWords |-> AccessLookups(event.p_memory_records[i]) ])

\* The dummy row of pad_vec_rows: a zeroed row with p_sub_q populated on 0, 0.
FieldSubPaddingRow == ZeroCells(5 + 2 * NumWords) \o << FieldOp(0, 0, "Sub") >>

\* A slot of the unzipped vectors that no task has filled yet.
NoRow == << >>

\* Variant of CollectRow: a finished row takes the first free place.
CollectRow_ArrivalOrder(slots, i, item) ==
  [ slots EXCEPT ![CHOOSE j \in 1..Len(slots) :
                     /\ slots[j] = NoRow
                     /\ \A k \in 1..(j - 1) : slots[k] # NoRow] = item ]

\* unzip() of the indexed parallel iterator: the item of event i takes place i
\* of the vector, whenever its task finishes.
CollectRow(slots, i, item) == [ slots EXCEPT ![i] = item ]

\* The part of generate_trace after unzip(): the buffers are handed to the
\* output record in order, the rows are padded and flattened.
FieldSubFinish(rows, new_byte_lookup_events, output) ==
  LET padded == PadVecRows(rows, FieldSubPaddingRow)
  IN  [ matrix |-> RowMajorMatrix(Flatten(padded), FieldSubWidth),
        output |-> AddByteLookupEvents(output, Flatten(new_byte_lookup_events)) ]

(***************************************************************************)
(* generate_trace calls                                                    *)
(***************************************************************************)
\* The result of a finished generate_trace call of a chip.
TraceDone(chip, x, y, matrix) ==
  [ trace EXCEPT
      !.pc = "done", !.ran = @ \cup { chip }, !.chip = chip, !.input = x,
      !.output = y, !.pending = {}, !.order = << >>, !.rows = << >>,
      !.buffers = << >>, !.matrix = matrix ]

\* A chip that has not generated its trace may start when no call is running.
MayGenerate(chip, x, y) ==
  /\ outcome = "none"
  /\ x # y
  /\ trace.pc \in { "idle", "done" }
  /\ chip \notin trace.ran

\* EdDecompressChip::generate_trace(&recs[x], &mut recs[y])
EdDecompressTrace(x, y) ==
  /\ MayGenerate("EdDecompress", x, y)
  /\ LET res == EdDecompressGenerateTrace(recs[x], recs[y])
     IN  /\ recs' = [ recs EXCEPT ![y] = res.output ]
         /\ trace' = TraceDone("EdDecompress", x, y, res.matrix)
  /\ call' = [ op |-> "generate_trace", chip |-> "EdDecompress" ]
  /\ pre' = recs
  /\ UNCHANGED <<emitted, shards, outcome, hist, orig, rt, air>>

\* WeierstrassDecompressChip::generate_trace(&recs[x], &mut recs[y])
WeierstrassDecompressTrace(x, y) ==
  /\ MayGenerate("Secp256k1Decompress", x, y)
  /\ LET res == WeierstrassDecompressGenerateTrace(recs[x], recs[y])
     IN  /\ recs' = [ recs EXCEPT ![y] = res.output ]
         /\ trace' = TraceDone("Secp256k1Decompress", x, y, res.matrix)
  /\ call' = [ op |-> "generate_trace", chip |-> "Secp256k1Decompress" ]
  /\ pre' = recs
  /\ UNCHANGED <<emitted, shards, outcome, hist, orig, rt, air>>

\* FieldSubChip::generate_trace(&recs[x], &mut recs[y]) starts: one task per
\* event of FP::sub_events(input) is handed to the parallel iterator.
FieldSubTraceStart(x, y) ==
  /\ MayGenerate("Bls12381FieldSub", x, y)
  /\ LET n == Len(recs[x].bls12381_fp_sub_events)
     IN  trace' = [ trace EXCEPT
                      !.pc = "rows", !.chip = "Bls12381FieldSub", !.input = x,
                      !.output = y, !.pending = 1..n, !.order = << >>,
                      !.rows = [ i \in 1..n |-> NoRow ],
                      !.buffers = [ i \in 1..n |-> NoRow ] ]
  /\ call' = [ op |-> "generate_trace", chip |-> "Bls12381FieldSub" ]
  /\ pre' = recs
  /\ UNCHANGED <<recs, emitted, shards, outcome, hist, orig, rt, air>>

\* One task of the parallel iterator: the closure runs on event i, and its
\* (row, byte lookups) pair is collected.  Tasks finish in any order.
FieldSubTraceRow ==
  \E i \in trace.pending :
    /\ trace.pc = "rows"
    /\ LET event == recs[trace.input].bls12381_fp_sub_events[i]
       IN  trace' = [ trace EXCEPT
                        !.pending = @ \ { i },
                        !.order = Append(@, i),
                        !.rows = CollectRow(@, i, FieldSubRow(event)),
                        !.buffers = CollectRow(@, i, FieldSubLookups(event)) ]
    /\ UNCHANGED <<recs, emitted, shards, outcome, call, pre, hist, orig, rt, air>>

\* All tasks have finished: the rest of FieldSubChip::generate_trace.
FieldSubTraceFinish ==
  /\ trace.pc = "rows"
  /\ trace.pending = {}
  /\ LET res == FieldSubFinish(trace.rows, trace.buffers, recs[trace.output])
     IN  /\ recs' = [ recs EXCEPT ![trace.output] = res.output ]
         /\ trace' = [ TraceDone("Bls12381FieldSub", trace.input, trace.output,
                                 res.matrix) EXCEPT !.order = trace.order ]
  /\ UNCHANGED <<emitted, shards, outcome, call, pre, hist, orig, rt, air>>

(***************************************************************************)
(* Specification of trace generation: the handlers push precompile events  *)
(* into record a, record b may hold byte lookups already, then each chip   *)
(* generates its trace from a into b, in any order.                        *)
(***************************************************************************)
\* The record is still being filled: no generate_trace call has been made.
Filling == emitted < MaxTraceEvents /\ trace = NoTrace

NextTrace ==
  \/ Filling /\ PushEdDecompressEvent("a")
  \/ Filling /\ PushWeierstrassDecompressEvent("a")
  \/ Filling /\ PushFieldSubEvent("a")
  \/ Filling /\ AddByteLookup("b")
  \/ EdDecompressTrace("a", "b")
  \/ WeierstrassDecompressTrace("a", "b")
  \/ FieldSubTraceStart("a", "b")
  \/ FieldSubTraceRow
  \/ FieldSubTraceFinish

SpecTrace == Init /\ [][NextTrace]_vars

(***************************************************************************)
(* Properties of generate_trace                                            *)
(***************************************************************************)
\* A generate_trace call has returned, and it was the last call.
Generated == call.op = "generate_trace" /\ trace.pc = "done"

\* The events of a chip in a record, its width, the row and the byte lookups
\* of one of its events.
ChipEvents(chip, r) ==
  CASE chip = "EdDecompress" -> r.ed_decompress_events
    [] chip = "Secp256k1Decompress" -> r.secp256k1_decompress_events
    [] chip = "Bls12381FieldSub" -> r.bls12381_fp_sub_events

ChipWidth(chip) ==
  CASE chip = "EdDecompress" -> EdDecompressWidth
    [] chip = "Secp256k1Decompress" -> WeierstrassDecompressWidth
    [] chip = "Bls12381FieldSub" -> FieldSubWidth

ChipRow(chip, event) ==
  CASE chip = "EdDecompress" -> EdDecompressRow(event)
    [] chip = "Secp256k1Decompress" -> WeierstrassDecompressRow(event)
    [] chip = "Bls12381FieldSub" -> FieldSubRow(event)

ChipLookups(chip, event) ==
  CASE chip = "EdDecompress" -> EdDecompressLookups(event)
    [] chip = "Secp256k1Decompress" -> WeierstrassDecompressLookups(event)
    [] chip = "Bls12381FieldSub" -> FieldSubLookups(event)

\* The events the last generate_trace call read, and the matrix it returned:
\* its number of rows and its i-th row (i from 1).
TraceEvents == ChipEvents(trace.chip, pre[trace.input])

MatrixHeight == Len(trace.matrix.values) \div trace.matrix.width

MatrixRow(i) ==
  SubSeq(trace.matrix.values,
         (i - 1) * trace.matrix.width + 1, i * trace.matrix.width)

\* h is a power of two.
IsPowerOfTwo(h) == \E k \in 0..h : h = 2^k

\* C13: the matrix generate_trace returns has width() columns and
\* next-power-of-two(number of the chip's events) rows: a power of two, at
\* least the number of events, and the smallest such.
C13_MatrixShape ==
  Generated =>
    /\ trace.matrix.width = ChipWidth(trace.chip)
    /\ Len(trace.matrix.values) = MatrixHeight * trace.matrix.width
    /\ IsPowerOfTwo(MatrixHeight)
    /\ MatrixHeight >= Len(TraceEvents)
    /\ \A h \in 1..(MatrixHeight - 1) :
         IsPowerOfTwo(h) => h < Len(TraceEvents)

\* C13 witness: a chip with three events returned a matrix of four rows.
C13_Witness ==
  /\ Generated
  /\ Len(TraceEvents) = 3
  /\ MatrixHeight = 4

\* C14: row i of the matrix is the row built from event i, for every i up to
\* the number of events and in whatever order the parallel tasks finished;
\* these rows have is_real = 1, and every row after them has is_real = 0.
C14_RowsInEventOrder ==
  Generated =>
    /\ \A i \in 1..Len(TraceEvents) :
         /\ MatrixRow(i) = ChipRow(trace.chip, TraceEvents[i])
         /\ MatrixRow(i)[1] = 1
    /\ \A i \in (Len(TraceEvents) + 1)..MatrixHeight : MatrixRow(i)[1] = 0

\* C14 witness: the field subtraction chip had three events that are not all
\* the same, the task of the last event finished first, and a padding row
\* follows the real rows.
C14_Witness ==
  /\ Generated
  /\ trace.chip = "Bls12381FieldSub"
  /\ Len(TraceEvents) = 3
  /\ TraceEvents[1] # TraceEvents[3]
  /\ trace.order[1] = 3
  /\ MatrixHeight = 4

\* The number of times e occurs in a sequence.
Occurrences(seq, e) == Cardinality({ j \in 1..Len(seq) : seq[j] = e })

\* The byte lookups emitted while populating the real rows of the last call.
EmittedLookups ==
  Flatten([ i \in 1..Len(TraceEvents) |-> ChipLookups(trace.chip, TraceEvents[i]) ])

\* The rearrangements of the numbers 1..n.
Rearrangements(n) ==
  { f \in [ 1..n -> 1..n ] : \A i, j \in 1..n : i # j => f[i] # f[j] }

\* C15: generate_trace leaves the input record unchanged; every multiplicity
\* of the output record grows by the number of times the byte lookup was
\* emitted for the real rows, under the key of the lookup's own shard, and
\* nothing else is added; merging the per-row buffers in any other order gives
\* the same map.
C15_LookupsIntoOutput ==
  Generated =>
    LET now == recs[trace.output].byte_lookups
        was == pre[trace.output].byte_lookups
    IN  /\ recs[trace.input] = pre[trace.input]
        /\ \A s \in ShardIds \cup { 0 }, e \in ByteLookupEvents :
             MultAt(now, s, e) =
               MultAt(was, s, e) + (IF e.shard = s THEN Occurrences(EmittedLookups, e) ELSE 0)
        /\ DOMAIN now \subseteq ShardIds
        /\ \A s \in DOMAIN now : DOMAIN now[s] \subseteq ByteLookupEvents
        /\ \A f \in Rearrangements(Len(TraceEvents)) :
             now = AddByteLookupEvents(pre[trace.output],
                     Flatten([ i \in 1..Len(TraceEvents) |->
                                 ChipLookups(trace.chip, TraceEvents[f[i]]) ])).byte_lookups

\* C15 witness: the output record held a byte lookup before the call, and the
\* call added lookups of two shards from two events, next to a padding row.
C15_Witness ==
  /\ Generated
  /\ pre[trace.output].byte_lookups # << >>
  /\ Len(TraceEvents) = 2
  /\ TraceEvents[1].shard # TraceEvents[2].shard
  /\ \E e \in ByteLookupEvents :
       /\ MultAt(pre[trace.output].byte_lookups, e.shard, e) >= 1
       /\ Occurrences(EmittedLookups, e) >= 1

(***************************************************************************)
(* Specification of sharding a record that holds CPU events, ALU events,   *)
(* chunked precompile events and first-shard precompile events.            *)
(***************************************************************************)
NextStreams ==
  \/ emitted < MaxEvents /\ PushCpu("a")
  \/ emitted < MaxEvents /\ AddMulEvent("a")
  \/ emitted < MaxEvents /\ PushFieldSubEvent("a")
  \/ emitted < MaxEvents /\ PushEdDecompressEvent("a")
  \/ emitted < MaxEvents /\ PushMemoryInitialize("a")
  \/ emitted < MaxEvents /\ PushMemoryFinalize("a")
  \/ Shard("a")

SpecStreams == Init /\ [][NextStreams]_vars

\* The eight ALU streams.
AluFields ==
  { "add_events", "mul_events", "sub_events", "bitwise_events",
    "shift_left_events", "shift_right_events", "divrem_events", "lt_events" }

\* The memory records inside an event.
MemoryRecordsOf(event) ==
  LET fields == DOMAIN event \cap { "p_memory_records", "q_memory_records",
                                    "x_memory_records", "y_memory_records" }
  IN  UNION { { event[f][i] : i \in 1..Len(event[f]) } : f \in fields }

\* C17: in every record shard() returns, every event of the CPU, ALU, chunked
\* precompile and first-shard precompile streams, and every memory record
\* inside it, has its shard field equal to the record's index.
C17_EventShardIsIndex ==
  Returned =>
    \A k \in 1..Len(shards) :
      \A f \in { "cpu_events" } \cup ChunkedFields \cup FirstShardFields :
        \A j \in 1..Len(shards[k][f]) :
          /\ shards[k][f][j].shard = shards[k].index
          /\ \A record \in MemoryRecordsOf(shards[k][f][j]) :
               record.shard = shards[k].index

\* The ALU streams of a record are all empty.
AluEmpty(r) == \A f \in AluFields : r[f] = << >>

C18_SingleCpuEvent ==
  (Returned /\ Len(Source.cpu_events) = 1) =>
    /\ Len(shards) = 1
    /\ shards[1].cpu_events = Source.cpu_events
    /\ shards[1].index = Source.cpu_events[1].shard
    /\ shards[1].public_values.shard = Source.cpu_events[1].shard

\* C18 witness: a record with one CPU event of a shard other than 1, and some
\* ALU events, was sharded.
C18_Witness ==
  /\ Returned
  /\ Len(Source.cpu_events) = 1
  /\ Source.cpu_events[1].shard > 1
  /\ Len(Source.mul_events) >= 2

\* The shard ids of the events rise by at most 1 from one event to the next.
RisingByOne(events) ==
  \A j \in 2..Len(events) :
    events[j].shard \in { events[j - 1].shard, events[j - 1].shard + 1 }

\* C20: for a record whose CPU shard ids never decrease and rise by exactly 1
\* at each change, every record shard() returns has an index equal to the
\* shard id of each of its cpu_events, also when the shard id changes at the
\* final CPU event.
C20_IndexIsShardOfCpuEvents ==
  (Returned /\ RisingByOne(Source.cpu_events)) =>
    \A k \in 1..Len(shards) :
      \A j \in 1..Len(shards[k].cpu_events) :
        shards[k].cpu_events[j].shard = shards[k].index

(***************************************************************************)
(* Properties of shard(): placement of the other streams                   *)
(***************************************************************************)
\* The length of the part of a stream of length n that the k-th record (k
\* from 1) takes with chunks of length len.
ChunkLength(n, len, k) ==
  IF (k - 1) * len >= n THEN 0 ELSE Min(len, n - (k - 1) * len)

\* C21: for every chunked family with source stream S, configured length L
\* and N returned records, the k-th record holds S[(k-1)L .. min(kL, n)) in
\* order (nothing when (k-1)L >= n), and the events from position N*L on are
\* in no record: the records' streams together are the first min(N*L, n)
\* events of S.
C21_ChunksByPosition ==
  Returned =>
    \A f \in ChunkedFields :
      LET S == Source[f]
          L == call.config[ChunkLenField[f]]
      IN  /\ \A k \in 1..Len(shards) :
               /\ Len(shards[k][f]) = ChunkLength(Len(S), L, k)
               /\ \A j \in 1..Len(shards[k][f]) :
                    shards[k][f][j] = S[(k - 1) * L + j]
          /\ Flatten([ k \in 1..Len(shards) |-> shards[k][f] ])
               = SubSeq(S, 1, Min(Len(shards) * L, Len(S)))

\* C21 witness: three mul events were chunked by 2 into a single record, so
\* the third event was dropped.
C21_Witness ==
  /\ Returned
  /\ Len(Source.mul_events) = 3
  /\ Source.mul_events[1] # Source.mul_events[2]
  /\ call.config.mul_len = 2
  /\ Len(shards) = 1

\* C22: in every returned record each chunked stream is at most as long as
\* the config length of its family.
C22_ChunkedStreamsBounded ==
  Returned =>
    \A k \in 1..Len(shards) :
      \A f \in ChunkedFields :
        Len(shards[k][f]) <= call.config[ChunkLenField[f]]

\* C22 witness: the source held more field subtraction events than the config
\* length, and the first record holds exactly that many.
C22_Witness ==
  /\ Returned
  /\ Len(Source.bls12381_fp_sub_events) > call.config.bls12381_fp_sub_len
  /\ Len(shards[1].bls12381_fp_sub_events) = call.config.bls12381_fp_sub_len

\* C23: the first-shard precompile streams of the first returned record are
\* the source's streams, and they are empty in every other returned record.
C23_FirstShardStreams ==
  Returned =>
    \A f \in FirstShardFields :
      /\ shards[1][f] = Source[f]
      /\ \A k \in 2..Len(shards) : shards[k][f] = << >>

\* C23 witness: two records were returned for a source with Edwards
\* decompress events.
C23_Witness ==
  /\ Returned
  /\ Len(shards) = 2
  /\ Source.ed_decompress_events # << >>

\* C24: the memory boundary streams of the last returned record are the
\* source's streams in order and are empty in every other record; a single
\* returned record holds the first-shard precompile streams too.
C24_MemoryInLastShard ==
  Returned =>
    /\ \A f \in LastShardFields :
         /\ shards[Len(shards)][f] = Source[f]
         /\ \A k \in 1..(Len(shards) - 1) : shards[k][f] = << >>
    /\ Len(shards) = 1 =>
         \A f \in FirstShardFields \cup LastShardFields : shards[1][f] = Source[f]

\* C24 witness: two records were returned for a source with a memory
\* boundary event.
C24_Witness ==
  /\ Returned
  /\ Len(shards) = 2
  /\ \E f \in LastShardFields : Source[f] # << >>

\* C25: every returned record has the source's committed_value_digest and
\* deferred_proofs_digest, public_values.shard equal to its index, start_pc
\* equal to the pc of its first CPU event, and next_pc and exit_code equal to
\* those of its last CPU event.
C25_PublicValues ==
  Returned =>
    \A k \in 1..Len(shards) :
      LET pv == shards[k].public_values
          events == shards[k].cpu_events
      IN  /\ events # << >>
          /\ pv.committed_value_digest = Source.public_values.committed_value_digest
          /\ pv.deferred_proofs_digest = Source.public_values.deferred_proofs_digest
          /\ pv.shard = shards[k].index
          /\ pv.start_pc = events[1].pc
          /\ pv.next_pc = events[Len(events)].next_pc
          /\ pv.exit_code = events[Len(events)].exit_code

\* C25 witness: two records were returned, one of them with a first and a
\* last CPU event that differ in pc, next_pc and exit_code.
C25_Witness ==
  /\ Returned
  /\ Len(shards) = 2
  /\ \E k \in 1..2 :
       LET events == shards[k].cpu_events
       IN  /\ Len(events) >= 2
           /\ events[1].pc # events[Len(events)].pc
           /\ events[1].exit_code # events[Len(events)].exit_code

(***************************************************************************)
(* MachineAir::included                                                    *)
(***************************************************************************)
\* EdDecompressChip::included
EdDecompressIncluded(shard) == shard.ed_decompress_events # << >>

\* The curves WeierstrassDecompressChip is instantiated with.
CurveTypes == { "Secp256k1", "Bls12381" }

\* Variant of WeierstrassDecompressIncluded: both curves look at the
\* secp256k1 stream.
WeierstrassDecompressIncluded_OneStream(curve_type, shard) ==
  shard.secp256k1_decompress_events # << >>

\* WeierstrassDecompressChip::included.  The BLS12-381 arm names the record's
\* BLS12-381 decompress stream, which ExecutionRecord declares as
\* bls12381_g1_decompress_events.
WeierstrassDecompressIncluded(curve_type, shard) ==
  CASE curve_type = "Secp256k1" -> shard.secp256k1_decompress_events # << >>
    [] curve_type = "Bls12381" -> shard.bls12381_g1_decompress_events # << >>

\* FieldSubChip::included
FieldSubIncluded(shard) == shard.bls12381_fp_sub_events # << >>

\* execute() of the BLS12-381 decompress syscall pushes its event.
PushBls12381DecompressEvent(x) ==
  \E event \in WeierstrassDecompressEvents :
    Push(x, "bls12381_g1_decompress_events", event)

\* Specification of sharding a record with decompress events, whose output
\* records the machine offers to the chips.
NextIncluded ==
  \/ emitted < MaxEvents /\ PushCpu("a")
  \/ emitted < MaxEvents /\ PushEdDecompressEvent("a")
  \/ emitted < MaxEvents /\ PushWeierstrassDecompressEvent("a")
  \/ emitted < MaxEvents /\ PushBls12381DecompressEvent("a")
  \/ emitted < MaxEvents /\ PushFieldSubEvent("a")
  \/ Shard("a")

SpecIncluded == Init /\ [][NextIncluded]_vars

\* The stream that holds the events of a curve's decompress chip.
DecompressStream ==
  [ Secp256k1 |-> "secp256k1_decompress_events",
    Bls12381 |-> "bls12381_g1_decompress_events" ]

\* included() of the three chips is true exactly when the record holds at
\* least one event of the chip's type.
IncludedIffHoldsEvent(r) ==
  /\ EdDecompressIncluded(r) <=> Len(r.ed_decompress_events) >= 1
  /\ \A c \in CurveTypes :
       WeierstrassDecompressIncluded(c, r) <=> Len(r[DecompressStream[c]]) >= 1
  /\ FieldSubIncluded(r) <=> Len(r.bls12381_fp_sub_events) >= 1

FieldSubPAccess(local, i) == local[5 + i]

FieldSubQAccess(local, i) == local[5 + NumWords + i]

\* constraint_memory_access of eval: the q block at clk, then the p block at
\* clk + 1, one access per word.
FieldSubMemoryAccesses(local) ==
  [ i \in 1..NumWords |->
      [ shard |-> local[2], clk |-> local[3],
        addr |-> local[5] + 4 * (i - 1),
        value |-> FieldSubQAccess(local, i), is_real |-> local[1] ] ]
    \o [ i \in 1..NumWords |->
           [ shard |-> local[2], clk |-> local[3] + 1,
             addr |-> local[4] + 4 * (i - 1),
             value |-> FieldSubPAccess(local, i), is_real |-> local[1] ] ]

\* receive_syscall of eval.
FieldSubReceiveSyscall(local) ==
  [ shard |-> local[2], clk |-> local[3], syscall_id |-> "BLS12381_FP_SUB",
    arg1 |-> local[4], arg2 |-> local[5], is_real |-> local[1] ]

\* The event the last create_fp_sub_event call returned.
LastFpSubEvent ==
  LET events == recs[call.self].bls12381_fp_sub_events
  IN  events[Len(events)]

\* C27: when create_fp_sub_event returns, every q read record has clk =
\* event.clk, every p write record has clk = event.clk + 1, the runtime clock
\* is advanced by exactly 1, no read record and write record share address
\* and clk (also when p_ptr = q_ptr); the eval checks the q accesses at clk
\* and the p accesses at clk + 1, at the addresses and clks of the records,
\* and receives the syscall at clk.
C27_ReadBeforeWrite ==
  (FpSubCalled /\ outcome # "panic") =>
    LET event == LastFpSubEvent
        local == FieldSubRow(event)
        accesses == FieldSubMemoryAccesses(local)
    IN  /\ event.clk = call.rt.clk
        /\ rt.clk = call.rt.clk + 1
        /\ \A i \in 1..NumWords :
             /\ event.q_memory_records[i].clk = event.clk
             /\ event.p_memory_records[i].clk = event.clk + 1
        /\ \A i, j \in 1..NumWords :
             ~ /\ event.q_memory_records[i].addr = event.p_memory_records[j].addr
               /\ event.q_memory_records[i].clk = event.p_memory_records[j].clk
        /\ \A i \in 1..NumWords :
             /\ accesses[i].clk = event.q_memory_records[i].clk
             /\ accesses[i].addr = event.q_memory_records[i].addr
             /\ accesses[i].clk = local[3]
             /\ accesses[NumWords + i].clk = event.p_memory_records[i].clk
             /\ accesses[NumWords + i].addr = event.p_memory_records[i].addr
             /\ accesses[NumWords + i].clk = local[3] + 1
        /\ FieldSubReceiveSyscall(local).clk = event.clk

\* C27 witness: the second syscall of a run returned with p_ptr = q_ptr.
C27_Witness ==
  /\ FpSubCalled
  /\ outcome # "panic"
  /\ call.arg1 = call.arg2
  /\ Len(recs[call.self].bls12381_fp_sub_events) = 2

(***************************************************************************)
(* AIR constraints: what the builder is handed during a chip's eval        *)
(***************************************************************************)
\* A constraint: the expression diff must be zero wherever the selector (the
\* product of the when(..) conditions) is not.  The cells of the model are
\* small canonical values of a prime field, where a product is zero exactly
\* when a factor is, as in the integers.
Constraint(name, selector, diff) ==
  [ name |-> name, selector |-> selector, diff |-> diff ]

Active(c) == c.selector # 0

Violated(c) == c.selector * c.diff # 0

\* builder.assert_bool(x)
AssertBool(name, x) == Constraint(name, 1, x * (x - 1))

\* builder.when(selector).assert_all_eq(value limbs, access words)
AssertAllEq(name, selector, value, words) ==
  { Constraint(name, selector, ToWords(value, NumWords)[i] - words[i]) :
      i \in 1..NumWords }

\* FieldOpCols::eval, FieldSqrtCols::eval and FieldRangeCols::eval: the
\* result cell is the operation on the operands, the square of the root is
\* the operand, the value is below the modulus.
FieldOpEval(name, result, a, b, op) ==
  Constraint(name, 1, result - FieldOp(a, b, op))

FieldSqrtEval(name, root, a) ==
  Constraint(name, 1, FieldOp(root, root, "Mul") - (a % Modulus))

FieldRangeEval(name, value) ==
  Constraint(name, 1, IF value < Modulus THEN 0 ELSE 1)

\* eval_memory_access / constraint_memory_access(shard, clk, addr, access,
\* do_check): the access is sent to the memory argument with multiplicity
\* do_check, which is asserted boolean.
MemoryAccessConstraints(do_check) == { AssertBool("is_real_bool", do_check) }

\* The values a prover may put into a flag cell.
FlagValues == { 0, 1, 2 }

\* The values of a field element of the model.
FieldValues == 0..(Modulus - 1)

(***************************************************************************)
(* EdDecompressCols::eval                                                  *)
(***************************************************************************)
\* The x_access and y_access words of a row of EdDecompressCols.
EdXAccess(local) == [ i \in 1..NumWords |-> local[5 + i] ]

EdYAccess(local) == [ i \in 1..NumWords |-> local[5 + NumWords + i] ]

\* Variant of EdDecompressEval: sign is not asserted boolean.
EdDecompressEval_SignNotAsserted(local) ==
  LET is_real == local[1]
      sign == local[5]
      ops == 5 + 2 * NumWords
      y == FromSlice(EdYAccess(local))
      yy == local[ops + 2]
      u == local[ops + 3]
      dyy == local[ops + 4]
      v == local[ops + 5]
      u_div_v == local[ops + 6]
      x == local[ops + 7]
      neg_x == local[ops + 8]
  IN  { FieldRangeEval("y_range", y),
        FieldOpEval("yy", yy, y, y, "Mul"),
        FieldOpEval("u", u, yy, 1, "Sub"),
        FieldOpEval("dyy", dyy, EdwardsD, yy, "Mul"),
        FieldOpEval("v", v, 1, dyy, "Add"),
        FieldOpEval("u_div_v", u_div_v, u, v, "Div"),
        FieldSqrtEval("x", x, u_div_v),
        FieldOpEval("neg_x", neg_x, 0, x, "Sub") }
        \cup MemoryAccessConstraints(is_real)
        \cup AssertAllEq("x_is_neg_x", is_real * sign, neg_x, EdXAccess(local))
        \cup AssertAllEq("x_is_x", is_real * (1 - sign), x, EdXAccess(local))

\* Variant of EdDecompressEval: the two selections by sign are exchanged.
EdDecompressEval_SignSwapped(local) ==
  LET is_real == local[1]
      sign == local[5]
      ops == 5 + 2 * NumWords
      y == FromSlice(EdYAccess(local))
      yy == local[ops + 2]
      u == local[ops + 3]
      dyy == local[ops + 4]
      v == local[ops + 5]
      u_div_v == local[ops + 6]
      x == local[ops + 7]
      neg_x == local[ops + 8]
  IN  { AssertBool("sign_bool", sign),
        FieldRangeEval("y_range", y),
        FieldOpEval("yy", yy, y, y, "Mul"),
        FieldOpEval("u", u, yy, 1, "Sub"),
        FieldOpEval("dyy", dyy, EdwardsD, yy, "Mul"),
        FieldOpEval("v", v, 1, dyy, "Add"),
        FieldOpEval("u_div_v", u_div_v, u, v, "Div"),
        FieldSqrtEval("x", x, u_div_v),
        FieldOpEval("neg_x", neg_x, 0, x, "Sub") }
        \cup MemoryAccessConstraints(is_real)
        \cup AssertAllEq("x_is_neg_x", is_real * (1 - sign), neg_x, EdXAccess(local))
        \cup AssertAllEq("x_is_x", is_real * sign, x, EdXAccess(local))

\* EdDecompressCols::eval: the constraints declared on a row.
EdDecompressEval(local) ==
  LET is_real == local[1]
      sign == local[5]
      ops == 5 + 2 * NumWords
      y == FromSlice(EdYAccess(local))
      yy == local[ops + 2]
      u == local[ops + 3]
      dyy == local[ops + 4]
      v == local[ops + 5]
      u_div_v == local[ops + 6]
      x == local[ops + 7]
      neg_x == local[ops + 8]
  IN  { AssertBool("sign_bool", sign),
        FieldRangeEval("y_range", y),
        FieldOpEval("yy", yy, y, y, "Mul"),
        FieldOpEval("u", u, yy, 1, "Sub"),
        FieldOpEval("dyy", dyy, EdwardsD, yy, "Mul"),
        FieldOpEval("v", v, 1, dyy, "Add"),
        FieldOpEval("u_div_v", u_div_v, u, v, "Div"),
        FieldSqrtEval("x", x, u_div_v),
        FieldOpEval("neg_x", neg_x, 0, x, "Sub") }
        \cup MemoryAccessConstraints(is_real)
        \cup AssertAllEq("x_is_neg_x", is_real * sign, neg_x, EdXAccess(local))
        \cup AssertAllEq("x_is_x", is_real * (1 - sign), x, EdXAccess(local))

\* eval_memory_access of eval: the x words at ptr, the y words behind them.
EdDecompressMemoryAccesses(local) ==
  [ i \in 1..NumWords |->
      [ shard |-> local[2], clk |-> local[3],
        addr |-> local[4] + 4 * (i - 1),
        value |-> EdXAccess(local)[i], is_real |-> local[1] ] ]
    \o [ i \in 1..NumWords |->
           [ shard |-> local[2], clk |-> local[3],
             addr |-> local[4] + 4 * (i - 1) + 4 * NumWords,
             value |-> EdYAccess(local)[i], is_real |-> local[1] ] ]

\* receive_syscall of eval.
EdDecompressReceiveSyscall(local) ==
  [ shard |-> local[2], clk |-> local[3], syscall_id |-> "ED_DECOMPRESS",
    arg1 |-> local[4], arg2 |-> local[5], is_real |-> local[1] ]

(***************************************************************************)
(* WeierstrassDecompressChip::eval                                         *)
(***************************************************************************)
\* The x_access and y_access words of a row of WeierstrassDecompressCols.
WeierstrassXAccess(local) == [ i \in 1..NumWords |-> local[5 + i] ]

WeierstrassYAccess(local) == [ i \in 1..NumWords |-> local[5 + NumWords + i] ]

\* The y_least_bits of a row.
WeierstrassYLeastBits(local) == [ i \in 1..8 |-> local[5 + 2 * NumWords + 5 + i] ]

\* 2^i
RECURSIVE PowerOfTwo(_)
PowerOfTwo(i) == IF i = 0 THEN 1 ELSE 2 * PowerOfTwo(i - 1)

\* Variant of WeierstrassDecompressEval: the conditions of the two written-y
\* constraints are exchanged.
WeierstrassDecompressEval_BranchesSwapped(local) ==
  LET is_real == local[1]
      is_odd == local[5]
      ops == 5 + 2 * NumWords
      x == FromSlice(WeierstrassXAccess(local))
      x_2 == local[ops + 1]
      x_3 == local[ops + 2]
      x_3_plus_b == local[ops + 3]
      y == local[ops + 4]
      neg_y == local[ops + 5]
      y_least_bits == WeierstrassYLeastBits(local)
      y_least_byte == y % 256
      recomputed_byte ==
        SumOver([ i \in 1..8 |-> y_least_bits[i] * PowerOfTwo(i - 1) ], 1..8)
      y_is_odd == y_least_bits[1]
      y_limbs == WeierstrassYAccess(local)
  IN  { AssertBool("is_odd_bool", is_odd),
        FieldOpEval("x_2", x_2, x, x, "Mul"),
        FieldOpEval("x_3", x_3, x_2, x, "Mul"),
        FieldOpEval("x_3_plus_b", x_3_plus_b, x_3, CurveB, "Add"),
        FieldSqrtEval("y", y, x_3_plus_b),
        FieldOpEval("neg_y", neg_y, 0, y, "Sub"),
        Constraint("y_least_byte", is_real, recomputed_byte - y_least_byte) }
        \cup { Constraint("y_least_bits_bool", is_real,
                          y_least_bits[i] * (y_least_bits[i] - 1)) : i \in 1..8 }
        \cup AssertAllEq("y_is_y", is_real * (y_is_odd - is_odd), y, y_limbs)
        \cup AssertAllEq("y_is_neg_y", is_real * (y_is_odd - (1 - is_odd)),
                         neg_y, y_limbs)
        \cup MemoryAccessConstraints(is_real)

\* WeierstrassDecompressChip::eval: the constraints declared on a row.
\* when_ne(a, b) makes a - b the condition: the constraint binds where a and
\* b differ.
WeierstrassDecompressEval(local) ==
  LET is_real == local[1]
      is_odd == local[5]
      ops == 5 + 2 * NumWords
      x == FromSlice(WeierstrassXAccess(local))
      x_2 == local[ops + 1]
      x_3 == local[ops + 2]
      x_3_plus_b == local[ops + 3]
      y == local[ops + 4]
      neg_y == local[ops + 5]
      y_least_bits == WeierstrassYLeastBits(local)
      y_least_byte == y % 256
      recomputed_byte ==
        SumOver([ i \in 1..8 |-> y_least_bits[i] * PowerOfTwo(i - 1) ], 1..8)
      y_is_odd == y_least_bits[1]
      y_limbs == WeierstrassYAccess(local)
  IN  { AssertBool("is_odd_bool", is_odd),
        FieldOpEval("x_2", x_2, x, x, "Mul"),
        FieldOpEval("x_3", x_3, x_2, x, "Mul"),
        FieldOpEval("x_3_plus_b", x_3_plus_b, x_3, CurveB, "Add"),
        FieldSqrtEval("y", y, x_3_plus_b),
        FieldOpEval("neg_y", neg_y, 0, y, "Sub"),
        Constraint("y_least_byte", is_real, recomputed_byte - y_least_byte) }
        \cup { Constraint("y_least_bits_bool", is_real,
                          y_least_bits[i] * (y_least_bits[i] - 1)) : i \in 1..8 }
        \cup AssertAllEq("y_is_y", is_real * (y_is_odd - (1 - is_odd)), y, y_limbs)
        \cup AssertAllEq("y_is_neg_y", is_real * (y_is_odd - is_odd), neg_y, y_limbs)
        \cup MemoryAccessConstraints(is_real)

\* eval_memory_access of eval: the x words behind the y words at ptr.
WeierstrassDecompressMemoryAccesses(local) ==
  [ i \in 1..NumWords |->
      [ shard |-> local[2], clk |-> local[3],
        addr |-> local[4] + 4 * (i - 1) + 4 * NumWords,
        value |-> WeierstrassXAccess(local)[i], is_real |-> local[1] ] ]
    \o [ i \in 1..NumWords |->
           [ shard |-> local[2], clk |-> local[3],
             addr |-> local[4] + 4 * (i - 1),
             value |-> WeierstrassYAccess(local)[i], is_real |-> local[1] ] ]

\* receive_syscall of eval, for secp256k1.
WeierstrassDecompressReceiveSyscall(local) ==
  [ shard |-> local[2], clk |-> local[3], syscall_id |-> "SECP256K1_DECOMPRESS",
    arg1 |-> local[4], arg2 |-> local[5], is_real |-> local[1] ]

(***************************************************************************)
(* FieldSubChip::eval                                                      *)
(***************************************************************************)
\* FieldSubChip::eval: the constraints declared on a row.  A row of the model
\* keeps the value cell of each access, so the p_sub_q sub-table, whose
\* operands are the previous values of the accesses, is not evaluated here.
FieldSubEval(local) ==
  LET is_real == local[1]
      p_sub_q == local[5 + 2 * NumWords + 1]
      p_access == [ i \in 1..NumWords |-> FieldSubPAccess(local, i) ]
  IN  AssertAllEq("p_is_p_sub_q", is_real, p_sub_q, p_access)
        \cup MemoryAccessConstraints(is_real)

(***************************************************************************)
(* The rows a prover may submit, and the evals run on them                 *)
(***************************************************************************)
\* Rows of EdDecompressCols: any is_real and sign, any written x, the field
\* operation columns populated from y.
EdDecompressAirRows ==
  { << is_real, 1, 4, 0, sign >> \o ToWords(written, NumWords)
      \o ToWords(y, NumWords) \o EdFieldOps(y) :
      is_real \in FlagValues, sign \in FlagValues,
      written \in FieldValues, y \in FieldValues }

\* Rows of WeierstrassDecompressCols: any is_real and is_odd, any written y,
\* the field operation columns populated from x.
WeierstrassDecompressAirRows ==
  { << is_real, 1, 4, 0, is_odd >> \o ToWords(x, NumWords)
      \o ToWords(written, NumWords) \o WeierstrassFieldOps(x) :
      is_real \in FlagValues, is_odd \in FlagValues,
      written \in FieldValues, x \in FieldValues }

\* Rows of FieldSubCols: any is_real, any written p, any q and p_sub_q.
FieldSubAirRows ==
  { << is_real, 1, 4, 0, 8 >> \o ToWords(written, NumWords)
      \o ToWords(q, NumWords) \o << p_sub_q >> :
      is_real \in FlagValues, written \in FieldValues,
      q \in FieldValues, p_sub_q \in FieldValues }

\* Everything but the outcome of the last eval.
machineVars == <<recs, emitted, shards, outcome, call, pre, hist, orig, rt, trace>>

\* Each action runs a chip's eval on one row and records its outcome: the
\* constraints that bind on the row, those it breaks, and the interactions
\* declared.
EdDecompressEvalRow ==
  \E local \in EdDecompressAirRows :
    LET constraints == EdDecompressEval(local)
    IN  /\ air' = [ chip |-> "EdDecompress", local |-> local,
                    active |-> { c.name : c \in { d \in constraints : Active(d) } },
                    failed |-> { c.name : c \in { d \in constraints : Violated(d) } },
                    accesses |-> EdDecompressMemoryAccesses(local),
                    syscall |-> EdDecompressReceiveSyscall(local) ]
        /\ UNCHANGED machineVars

WeierstrassDecompressEvalRow ==
  \E local \in WeierstrassDecompressAirRows :
    LET constraints == WeierstrassDecompressEval(local)
    IN  /\ air' = [ chip |-> "WeierstrassDecompress", local |-> local,
                    active |-> { c.name : c \in { d \in constraints : Active(d) } },
                    failed |-> { c.name : c \in { d \in constraints : Violated(d) } },
                    accesses |-> WeierstrassDecompressMemoryAccesses(local),
                    syscall |-> WeierstrassDecompressReceiveSyscall(local) ]
        /\ UNCHANGED machineVars

FieldSubEvalRow ==
  \E local \in FieldSubAirRows :
    LET constraints == FieldSubEval(local)
    IN  /\ air' = [ chip |-> "FieldSub", local |-> local,
                    active |-> { c.name : c \in { d \in constraints : Active(d) } },
                    failed |-> { c.name : c \in { d \in constraints : Violated(d) } },
                    accesses |-> FieldSubMemoryAccesses(local),
                    syscall |-> FieldSubReceiveSyscall(local) ]
        /\ UNCHANGED machineVars

NextAir ==
  \/ EdDecompressEvalRow
  \/ WeierstrassDecompressEvalRow
  \/ FieldSubEvalRow

SpecAir == Init /\ [][NextAir]_vars

(***************************************************************************)
(* Properties of the evals                                                 *)
(***************************************************************************)
\* The written y words of the row are the limbs of a value.
WrittenIs(words, value) == words = ToWords(value, NumWords)

\* The row under a Weierstrass eval is real, with boolean is_odd and y_is_odd.
WeierstrassRealRow ==
  /\ air.chip = "WeierstrassDecompress"
  /\ air.local[1] = 1
  /\ air.local[5] \in {0, 1}
  /\ WeierstrassYLeastBits(air.local)[1] \in {0, 1}

\* The constraint named binds on the row and holds exactly when the written
\* words are the limbs of the value.
ConstrainedToEqual(name, words, value) ==
  /\ name \in air.active
  /\ name \in air.failed <=> ~WrittenIs(words, value)

\* C28 as stated: on a real row with boolean is_odd and y_is_odd, the written
\* y limbs are constrained to equal y when y_is_odd = 1 - is_odd and to equal
\* neg_y when y_is_odd = is_odd, and exactly one of the two binds.
C28_WrittenYAsStated ==
  WeierstrassRealRow =>
    LET local == air.local
        is_odd == local[5]
        y_is_odd == WeierstrassYLeastBits(local)[1]
        y == local[5 + 2 * NumWords + 4]
        neg_y == local[5 + 2 * NumWords + 5]
        y_limbs == WeierstrassYAccess(local)
    IN  /\ y_is_odd = 1 - is_odd => ConstrainedToEqual("y_is_y", y_limbs, y)
        /\ y_is_odd = is_odd => ConstrainedToEqual("y_is_neg_y", y_limbs, neg_y)
        /\ ("y_is_y" \in air.active) # ("y_is_neg_y" \in air.active)

\* C28 amended: on a real row with boolean is_odd and y_is_odd, the written y
\* limbs are constrained to equal y when y_is_odd = is_odd and to equal neg_y
\* when y_is_odd = 1 - is_odd, and exactly one of the two binds.
C28_WrittenYByParity ==
  WeierstrassRealRow =>
    LET local == air.local
        is_odd == local[5]
        y_is_odd == WeierstrassYLeastBits(local)[1]
        y == local[5 + 2 * NumWords + 4]
        neg_y == local[5 + 2 * NumWords + 5]
        y_limbs == WeierstrassYAccess(local)
    IN  /\ y_is_odd = is_odd => ConstrainedToEqual("y_is_y", y_limbs, y)
        /\ y_is_odd = 1 - is_odd => ConstrainedToEqual("y_is_neg_y", y_limbs, neg_y)
        /\ ("y_is_y" \in air.active) # ("y_is_neg_y" \in air.active)

\* C28 witness: a real row whose root y is odd while is_odd = 0, whose written
\* limbs are those of y and not of neg_y, breaks the neg_y constraint.
C28_Witness ==
  /\ WeierstrassRealRow
  /\ air.local[5] = 0
  /\ WeierstrassYLeastBits(air.local)[1] = 1
  /\ WrittenIs(WeierstrassYAccess(air.local), air.local[5 + 2 * NumWords + 4])
  /\ "y_is_neg_y" \in air.failed

\* C29: on a real row with boolean sign the written x limbs are constrained
\* to equal neg_x when sign = 1 and x when sign = 0; on a row with is_real = 0
\* neither equality binds.
C29_WrittenXBySign ==
  air.chip = "EdDecompress" =>
    LET local == air.local
        is_real == local[1]
        sign == local[5]
        x == local[5 + 2 * NumWords + 7]
        neg_x == local[5 + 2 * NumWords + 8]
        x_limbs == EdXAccess(local)
    IN  /\ (is_real = 1 /\ sign = 1) =>
             ConstrainedToEqual("x_is_neg_x", x_limbs, neg_x)
        /\ (is_real = 1 /\ sign = 0) =>
             ConstrainedToEqual("x_is_x", x_limbs, x)
        /\ is_real = 0 =>
             /\ "x_is_neg_x" \notin air.active \cup air.failed
             /\ "x_is_x" \notin air.active \cup air.failed

\* C29 witness: a real row with sign = 1 whose written limbs are those of x,
\* which differs from neg_x, breaks the neg_x constraint.
C29_Witness ==
  /\ air.chip = "EdDecompress"
  /\ air.local[1] = 1
  /\ air.local[5] = 1
  /\ WrittenIs(EdXAccess(air.local), air.local[5 + 2 * NumWords + 7])
  /\ "x_is_neg_x" \in air.failed

\* The sign/oddness flag of the row under eval; FieldSubCols has none.
HasFlag == air.chip \in { "EdDecompress", "WeierstrassDecompress" }

====
